---- MODULE Spec2Model ----
(***************************************************************************)
(* Spectral Deferred Correction schemes of gusto/sdc.py (SDC with its      *)
(* subclasses FE_SDC, BE_SDC and IMEX_SDC) driven by the time loop of      *)
(* gusto/timeloop.py (Timestepper.run, Timestepper.timestep).              *)
(*                                                                         *)
(* Numbers.  A real number r is the integer nearest to r * Scale (fixed    *)
(* point); products and quotients are rounded to the nearest integer, as   *)
(* floating point rounds to the nearest float.  A polynomial is the        *)
(* sequence of its integer coefficients, highest degree first, as          *)
(* numpy.poly1d keeps them.  A field is one fixed-point number: the        *)
(* equation solved is the scalar linear equation dy/dt + L(y) = 0.         *)
(***************************************************************************)
EXTENDS Integers, Sequences, FiniteSets, TLC

\* ------------------------------------------------------------ bounds
\* largest node count M, timestep dt, sweep count maxk tried
MaxM == 3
MaxDt == 1
MaxMaxk == 2
\* timesteps of a run
MaxSteps == 2
\* fixed-point denominator, and the number of cells of the root scan
Scale == 1024
ScanCells == 32
MaxFreq == 3
MaxDumps == 7
MaxOuter == 2
MaxInner == 2
MaxCnSteps == 2
MaxFields == 3

\* ------------------------------------------------------------ fixed point
Abs(x) == IF x < 0 THEN -x ELSE x

Sign(x) == IF x < 0 THEN -1 ELSE IF x > 0 THEN 1 ELSE 0

\* a / b rounded to the nearest integer, b # 0
RDiv(a, b) ==
    LET n == IF b < 0 THEN -a ELSE a
        d == Abs(b)
    IN  (n + d \div 2) \div d

Fx(n) == n * Scale

Mul(a, b) == RDiv(a * b, Scale)

Div(a, b) == RDiv(a * Scale, b)

Reverse(s) == [i \in 1..Len(s) |-> s[Len(s) + 1 - i]]

RECURSIVE SeqSum(_)
SeqSum(s) == IF s = <<>> THEN 0 ELSE Head(s) + SeqSum(Tail(s))

RECURSIVE SetToSortedSeq(_)
SetToSortedSeq(S) ==
    IF S = {} THEN <<>>
    ELSE LET m == CHOOSE x \in S : \A y \in S : x <= y
         IN  <<m>> \o SetToSortedSeq(S \ {m})

\* ------------------------------------------------------------ polynomials
\* coefficient of x^k in p (0 beyond the degree)
Coef(p, k) == IF k >= 0 /\ k < Len(p) THEN p[Len(p) - k] ELSE 0

PolyAdd(p, q) ==
    LET n == IF Len(p) > Len(q) THEN Len(p) ELSE Len(q)
    IN  [i \in 1..n |-> Coef(p, n - i) + Coef(q, n - i)]

PolyScale(c, p) == [i \in 1..Len(p) |-> c * p[i]]

\* x * p
PolyShift(p) == p \o <<0>>

\* numpy.poly1d drops leading zero coefficients
RECURSIVE PolyTrim(_)
PolyTrim(p) ==
    IF Len(p) > 1 /\ p[1] = 0 THEN PolyTrim(Tail(p)) ELSE p

RECURSIVE Pow2(_)
Pow2(n) == IF n <= 0 THEN 1 ELSE 2 * Pow2(n - 1)

\* scipy.special.legendre(n) times 2^n, which makes every coefficient an
\* integer and changes no root: (k+1) P_{k+1} = (2k+1) x P_k - k P_{k-1}
RECURSIVE legendre(_)
legendre(n) ==
    IF n = 0 THEN <<1>>
    ELSE IF n = 1 THEN <<2, 0>>
    ELSE LET k  == n - 1
             up == PolyAdd(PolyScale(2 * (2 * k + 1), PolyShift(legendre(k))),
                           PolyScale(-4 * k, legendre(k - 1)))
         IN  [i \in 1..Len(up) |-> up[i] \div (k + 1)]

\* poly1d.deriv()
PolyDeriv(p) ==
    IF Len(p) <= 1 THEN <<0>>
    ELSE [i \in 1..(Len(p) - 1) |-> p[i] * (Len(p) - i)]

\* quotient of the polynomial division of p by (x - r), r an integer
RECURSIVE SynthDiv(_, _, _)
SynthDiv(p, r, acc) ==
    IF Len(p) <= 1 THEN acc
    ELSE LET c == p[1] + (IF acc = <<>> THEN 0 ELSE r * acc[Len(acc)])
         IN  SynthDiv(Tail(p), r, Append(acc, c))

PolyDivLinear(p, r) == IF Len(p) <= 1 THEN <<0>> ELSE SynthDiv(p, r, <<>>)

\* numpy.polyval(p, x): Horner's rule at the fixed-point number x
RECURSIVE PolyvalFrom(_, _, _, _)
PolyvalFrom(p, x, i, acc) ==
    IF i > Len(p) THEN acc
    ELSE PolyvalFrom(p, x, i + 1, Mul(acc, x) + Fx(p[i]))

polyval(p, x) == PolyvalFrom(p, x, 1, 0)

\* the root of p between lo and hi, where p changes sign, by bisection
RECURSIVE Bisect(_, _, _)
Bisect(p, lo, hi) ==
    IF hi - lo <= 1
    THEN IF Abs(polyval(p, lo)) <= Abs(polyval(p, hi)) THEN lo ELSE hi
    ELSE LET mid == (lo + hi) \div 2
         IN  IF polyval(p, mid) = 0 THEN mid
             ELSE IF Sign(polyval(p, mid)) = Sign(polyval(p, lo))
                  THEN Bisect(p, mid, hi)
                  ELSE Bisect(p, lo, mid)

\* the points lo = c_0 < c_1 < ... < c_ScanCells = hi that cut [-1, 1] in cells
CellEdge(i) == IF i >= ScanCells THEN Scale ELSE -Scale + i * ((2 * Scale) \div ScanCells)

\* poly1d.roots of a polynomial whose roots are real, simple and in [-1, 1]:
\* every root to the precision of the fixed point
roots(p) ==
    LET q == PolyTrim(p)
    IN  IF Len(q) <= 1 THEN {}
        ELSE { Bisect(q, CellEdge(i), CellEdge(i + 1)) :
                 i \in { j \in 0..(ScanCells - 1) :
                           /\ polyval(q, CellEdge(j)) # 0
                           /\ Sign(polyval(q, CellEdge(j)))
                                # Sign(polyval(q, CellEdge(j + 1))) } }
           \cup { CellEdge(j) : j \in { l \in 0..ScanCells : polyval(q, CellEdge(l)) = 0 } }

\* np.sort(poly.roots)
SortedRoots(p) == SetToSortedSeq(roots(p))

\* ------------------------------------------------------------ quadrature
\* the reference interval [A, B] of create_nodes and gauss_legendre
A == -1
B == 1

Quadratures == {"gauss-radau", "gauss-lobatto", "gauss-legendre"}

\* the affine map without its offset
RescaleNoShift(x, a, b) == RDiv(Mul(b - a, x), B - A)

\* ((b - a) * nodes + a * B - b * A) / (B - A), the map from [A, B] to [a, b]
Rescale(x, a, b) == RDiv(Mul(b - a, x) + a * B - b * A, B - A)

\* the reflection without the reversal, and the reversal without the reflection
ReflectNoReverse(scaled, a, b) == [i \in 1..Len(scaled) |-> (b + a) - scaled[i]]

ReverseNoReflect(scaled, a, b) == Reverse(scaled)

\* ((b + a) - nodes)[::-1]
Reflect(scaled, a, b) == Reverse([i \in 1..Len(scaled) |-> (b + a) - scaled[i]])

\* SDC.create_nodes: the M nodes on [0, b], or the exception raised.
\* np.zeros(M) raises ValueError for M < 0; nodes[0] = A raises IndexError
\* on an empty array; scipy's legendre(n) raises ValueError for n < 0.
create_nodes(M, b, quadrature) ==
    LET a == 0
        ref ==
          IF quadrature = "gauss-radau"
          THEN LET p    == <<1, 1>>
                   pn   == legendre(M)
                   pn1  == PolyScale(2, legendre(M - 1))
                   poly == PolyDivLinear(PolyAdd(pn, pn1), -p[2])
               IN  <<Fx(A)>> \o SortedRoots(poly)
          ELSE IF quadrature = "gauss-lobatto"
          THEN LET pn   == legendre(M - 1)
                   pn_d == PolyDeriv(pn)
               IN  IF M = 1 THEN <<Fx(B)>>
                   ELSE <<Fx(A)>> \o SortedRoots(pn_d) \o <<Fx(B)>>
          ELSE SortedRoots(legendre(M))
        scaled == [i \in 1..Len(ref) |-> Rescale(ref[i], a, b)]
    IN  IF M < 0 THEN [err |-> "ValueError", nodes |-> <<>>]
        ELSE IF M = 0 /\ quadrature = "gauss-radau"
        THEN [err |-> "IndexError", nodes |-> <<>>]
        ELSE IF M = 0 /\ quadrature = "gauss-lobatto"
        THEN [err |-> "ValueError", nodes |-> <<>>]
        ELSE [err |-> "none", nodes |-> Reflect(scaled, a, b)]

\* SDC.NewtonVM: entry (r, i) of the Newton Vandermonde matrix of the nodes t
RECURSIVE NewtonVM(_, _, _)
NewtonVM(t, r, i) ==
    IF i = 1 THEN Fx(1) ELSE Mul(t[r] - t[i - 1], NewtonVM(t, r, i - 1))

\* scipy.linalg.solve_triangular(NewtonVM(t), coeff, lower=True) by forward
\* substitution; <<>> stands for the LinAlgError of a singular matrix
RECURSIVE ForwardSubst(_, _, _)
ForwardSubst(t, coeff, acc) ==
    LET i == Len(acc) + 1
        s == SeqSum([j \in 1..Len(acc) |-> Mul(NewtonVM(t, i, j), acc[j])])
    IN  IF i > Len(t) THEN acc
        ELSE IF NewtonVM(t, i, i) = 0 THEN <<>>
        ELSE ForwardSubst(t, coeff, Append(acc, Div(coeff[i] - s, NewtonVM(t, i, i))))

solve_triangular(t, coeff) == ForwardSubst(t, coeff, <<>>)

\* SDC.Horner_newton: the polynomial with Newton coefficients weights on the
\* nodes xi, at the point x
RECURSIVE HornerFrom(_, _, _, _, _)
HornerFrom(weights, xi, x, i, y) ==
    IF i >= Len(weights) THEN y
    ELSE HornerFrom(weights, xi, x, i + 1,
                    Mul(y, x - xi[Len(xi) - i]) + weights[Len(weights) - i])

Horner_newton(weights, xi, x) == HornerFrom(weights, xi, x, 0, 0)

\* SDC.gauss_legendre: nodes and weights of the n-point Gauss-Legendre rule
\* on [0, b]; legendre(n) carries the factor 2^n, taken out of its derivative
gauss_legendre(n, b) ==
    LET a       == 0
        poly    == legendre(n)
        polyd   == PolyDeriv(poly)
        nodes   == SortedRoots(poly)
        d(x)    == RDiv(polyval(polyd, x), Pow2(n))
        weights == [i \in 1..Len(nodes) |->
                      Div(Fx(2), Mul(Fx(1) - Mul(nodes[i], nodes[i]),
                                     Mul(d(nodes[i]), d(nodes[i]))))]
    IN  [gl_nodes   |-> [i \in 1..Len(nodes) |-> Rescale(nodes[i], a, b)],
         gl_weights |-> [i \in 1..Len(nodes) |-> RDiv(Mul(b - a, weights[i]), B - A)]]

\* SDC.get_weights: the integrals over [0, b] of the M Lagrange polynomials
\* of the nodes
get_weights(M, nodes, b) ==
    LET gl == gauss_legendre((M + 1) \div 2, b)
        w(j) ==
          LET coeff == [i \in 1..M |-> IF i = j THEN Fx(1) ELSE 0]
              poly_coeffs == solve_triangular(nodes, coeff)
              eval_newt_poly == [i \in 1..Len(gl.gl_nodes) |->
                                   Horner_newton(poly_coeffs, nodes, gl.gl_nodes[i])]
          IN  SeqSum([i \in 1..Len(gl.gl_nodes) |->
                        Mul(gl.gl_weights[i], eval_newt_poly[i])])
    IN  [j \in 1..M |-> w(j)]

\* SDC.Qmatrix: row m holds the weights for the interval [0, nodes[m]]
Qmatrix(M, nodes) == [m \in 1..M |-> get_weights(M, nodes, nodes[m])]

\* final weights taken over [0, last node] instead of [0, dt]
QfinalToLastNode(M, nodes, dt_coarse) == get_weights(M, nodes, nodes[M])

\* SDC.Qfinal: the weights for the interval [0, dt]
Qfinal(M, nodes, dt_coarse) == get_weights(M, nodes, dt_coarse)

\* an increment matrix that is a copy of Q
SmatrixCopy(M, Q) == Q

\* SDC.Smatrix: the first difference of the rows of Q
Smatrix(M, Q) ==
    [m \in 1..M |-> IF m = 1 THEN Q[1]
                    ELSE [j \in 1..M |-> Q[m][j] - Q[m - 1][j]]]

\* np.diff(np.append(0, nodes))
Dtau(nodes) ==
    [m \in 1..Len(nodes) |-> IF m = 1 THEN nodes[1] - 0 ELSE nodes[m] - nodes[m - 1]]


\* CrankNicolson.__init__ lines 179-180: the defaults of maxk and maxi
DefaultMaxk == 4
DefaultMaxi == 1

\* ------------------------------------------------------------ the equation
\* The residual is dy/dt + L(y) = 0 with L(y) = imp * y + exp * y, the first
\* term labelled implicit and the second explicit; F(y) = -L(y).
Equations == { [imp |-> 1, exp |-> 0], [imp |-> 1, exp |-> 1] }

Limp(eq, y) == eq.imp * y

Lexp(eq, y) == eq.exp * y

L(eq, y) == Limp(eq, y) + Lexp(eq, y)

\* base.apply(x_out, x_in) with base.dt = dt: one step of the low-order scheme
BaseSchemes == {"ForwardEuler", "BackwardEuler"}

BaseApply(base, eq, dt, y) ==
    IF base = "ForwardEuler" THEN y - Mul(dt, L(eq, y))
    ELSE Div(y, Fx(1) + dt * (eq.imp + eq.exp))

\* initial values of the prognostic field
InitialFields == { Fx(1), -Fx(2) }

\* ------------------------------------------------------------ state
VARIABLES
    \* arguments of SDC.__init__ kept by the object
    variant, quadrature, M, maxk, final_update, dt_coarse,
    \* the argument t of Timestepper.run, and the class of the timestepper
    t0, timestepper,
    \* progress of SDC.__init__ and what it has computed so far
    ctor_pc, exc, nodes, Q, S, Qfin, dtau,
    \* SDC.setup: the equation, the base scheme and the work fields
    eqn, base, base_dt,
    Unodes, Unodes1, fUnodes, quad,
    U_SDC, U0, U01, Un, Q_, quad_final, U_fin, Urhs, Uin,
    \* self.dt, and the value of it held by the cached solver_SDC
    dt, solver_SDC,
    \* the running apply: position, loop indices, its two arguments
    apply_pc, m, k, call,
    \* Timestepper.run: position, time, end time, time levels, field store
    run_pc, t, tmax, physics_list, x, fields, ndump,
    \* history of the running apply (not program state)
    hist

cfgVars  == <<variant, quadrature, M, maxk, final_update, dt_coarse, t0,
             timestepper>>
ctorVars == <<ctor_pc, nodes, Q, S, Qfin, dtau>>
setupVars == <<eqn, base>>
workVars == <<base_dt, Unodes, Unodes1, fUnodes, quad, U_SDC, U0, U01, Un, Q_,
              quad_final, U_fin, Urhs, Uin, dt, solver_SDC>>
applyVars == <<apply_pc, m, k, call>>
runVars  == <<run_pc, t, tmax, physics_list, x, fields, ndump>>
sdcVars == <<cfgVars, ctorVars, exc, setupVars, workVars, applyVars, runVars, hist>>

\* ------------------------------------------------------------ state of IO
VARIABLES
    \* OutputParameters: which kinds are written, and how often
    output,
    \* the itertools.count objects of IO (-1: not created)
    dumpcount, chkptcount, pddumpcount,
    \* position of IO, and what each dump call wrote (not program state)
    io_pc, io_log

ioVars == <<output, dumpcount, chkptcount, pddumpcount, io_pc, io_log>>

\* the IO object before setup_dump, with the default OutputParameters
IoIdle ==
    /\ output = [dump_vtus |-> TRUE, checkpoint |-> TRUE, point_data |-> FALSE,
                 dumpfreq |-> 1, chkptfreq |-> 1, pddumpfreq |-> 0]
    /\ dumpcount = -1 /\ chkptcount = -1 /\ pddumpcount = -1
    /\ io_pc = "new" /\ io_log = <<>>

\* ------------------------------------------------------------ state of
\* CrankNicolson
VARIABLES
    \* self.maxk, self.maxi of CrankNicolson
    cn_maxk, maxi,
    \* CrankNicolson.timestep: position, the loop indices k and i
    cn_pc, cn_k, cn_i,
    \* the level-n+1 field, the residual xrhs and the solver's result dy
    xnp1, xrhs, dy,
    \* what the running timestep has done so far (not program state)
    cn_hist

cnVars == <<cn_maxk, maxi, cn_pc, cn_k, cn_i, xnp1, xrhs, dy, cn_hist>>

NoCnHist == [explicit |-> 0, transport |-> 0, implicit |-> 0, solve |-> 0,
             bcs |-> 0, late |-> 0, start |-> 0, sum_dy |-> 0, bcs_at |-> {},
             steps |-> 0]

\* a CrankNicolson stepper with the default maxk = 4, maxi = 1, not stepping
CnIdle ==
    /\ cn_maxk = DefaultMaxk /\ maxi = DefaultMaxi
    /\ cn_pc = "idle" /\ cn_k = 0 /\ cn_i = 0
    /\ xnp1 = 0 /\ xrhs = 0 /\ dy = 0
    /\ cn_hist = NoCnHist

\* ------------------------------------------------------------ state of
\* SplitTimestepper
VARIABLES
    \* arguments of SplitTimestepper.__init__: the labels of term_splitting,
    \* whether physics_schemes and dynamics_schemes are given (not None)
    term_splitting, physics_schemes, dynamics_schemes,
    \* the labels of the equation's terms that are neither the time derivative
    \* nor physics
    eq_terms,
    \* position of the constructor and the exception it raised
    split_pc, split_exc

splitVars == <<term_splitting, physics_schemes, dynamics_schemes, eq_terms,
               split_pc, split_exc>>

\* no SplitTimestepper under construction
SplitIdle ==
    /\ term_splitting = {} /\ physics_schemes = FALSE /\ dynamics_schemes = FALSE
    /\ eq_terms = {} /\ split_pc = "new" /\ split_exc = "none"

\* ------------------------------------------------------------ state of
\* topo_sort
VARIABLES
    \* the argument: field_deps[f] is the sorted list of the fields that
    \* diagnostic f is evaluated from
    field_deps,
    \* the locals graph (input and output dependencies of each field), roots
    \* and schedule
    graph, topo_roots, schedule,
    \* position of topo_sort
    topo_pc

topoVars == <<field_deps, graph, topo_roots, schedule, topo_pc>>

\* topo_sort not called
TopoIdle ==
    /\ field_deps = <<>> /\ graph = <<>> /\ topo_roots = <<>> /\ schedule = <<>>
    /\ topo_pc = "new"

\* ------------------------------------------------------------ state of
\* the solver parameters of SDC
VARIABLES
    \* the arguments linear_solver_parameters, nonlinear_solver_parameters
    \* of SDC.__init__
    arg_linear, arg_nonlinear,
    \* the attributes self.linear_solver_parameters,
    \* self.nonlinear_solver_parameters
    linear_solver_parameters, nonlinear_solver_parameters,
    \* the solver_parameters that solver_rhs and solver_fin were built with
    solver_rhs_parameters, solver_fin_parameters,
    \* position in SDC.__init__ and after
    params_pc

paramVars == <<arg_linear, arg_nonlinear, linear_solver_parameters,
               nonlinear_solver_parameters, solver_rhs_parameters,
               solver_fin_parameters, params_pc>>

\* a dictionary of solver options; kind tells a dictionary from None and
\* from an attribute or solver that does not exist yet
Options(kind, snes, ksp, pc, sub_pc) ==
    [kind |-> kind, snes_type |-> snes, ksp_type |-> ksp, pc_type |-> pc,
     sub_pc_type |-> sub_pc]

None == Options("None", "", "", "", "")

Unset == Options("unset", "", "", "", "")

\* no SDC scheme whose solver parameters are followed
ParamsIdle ==
    /\ arg_linear = None /\ arg_nonlinear = None
    /\ linear_solver_parameters = Unset /\ nonlinear_solver_parameters = Unset
    /\ solver_rhs_parameters = Unset /\ solver_fin_parameters = Unset
    /\ params_pc = "new"

\* ------------------------------------------------------------ state of
\* one node solve, done by IMEX_SDC and by a pure variant
VARIABLES
    \* the equation, self.dt and the fields U0, U01, Un, Q_ of the solve
    deg_eqn, deg_dt, deg_U0, deg_U01, deg_Un, deg_Q_,
    \* what the solve of IMEX_SDC and of the pure variant ended with
    imex_result, pure_result

degVars == <<deg_eqn, deg_dt, deg_U0, deg_U01, deg_Un, deg_Q_, imex_result,
             pure_result>>

\* the end of a solve: the value of U_SDC, or the exception raised
Solved(v) == [raised |-> "none", U_SDC |-> v]

Raised(e) == [raised |-> e, U_SDC |-> 0]

NotSolved == [raised |-> "not solved", U_SDC |-> 0]

\* no node solve under comparison
DegIdle ==
    /\ deg_eqn = [imp |-> 0, exp |-> 0] /\ deg_dt = 0
    /\ deg_U0 = 0 /\ deg_U01 = 0 /\ deg_Un = 0 /\ deg_Q_ = 0
    /\ imex_result = NotSolved /\ pure_result = NotSolved

otherVars == <<ioVars, cnVars, splitVars, topoVars, paramVars, degVars>>
vars == <<sdcVars, otherVars>>

Variants == {"FE_SDC", "BE_SDC", "IMEX_SDC"}

\* prev: the <<x_in, x_out>> pairs of the applies that returned earlier;
\* iter: the stages of Timestepper.run's current iteration, in order
NoHist == [x_in |-> 0, base |-> 0, rhs |-> 0, solve |-> 0, fin_rhs |-> 0,
           fin |-> 0, sweeps |-> 0, steps |-> 0, written |-> {}, out |-> 0,
           prev |-> {}, iter |-> <<>>]

Init ==
    /\ variant \in Variants
    /\ quadrature \in Quadratures
    /\ M \in (-1)..MaxM
    /\ maxk \in 0..MaxMaxk
    /\ final_update \in BOOLEAN
    /\ dt_coarse \in { Fx(d) : d \in 1..MaxDt }
    /\ t0 = 0 /\ timestepper = "Timestepper"
    /\ ctor_pc = "create_nodes"
    /\ exc = "none"
    /\ nodes = <<>> /\ Q = <<>> /\ S = <<>> /\ Qfin = <<>> /\ dtau = <<>>
    /\ eqn = [imp |-> 0, exp |-> 0] /\ base = "none" /\ base_dt = 0
    /\ Unodes = <<>> /\ Unodes1 = <<>> /\ fUnodes = <<>> /\ quad = <<>>
    /\ U_SDC = 0 /\ U0 = 0 /\ U01 = 0 /\ Un = 0 /\ Q_ = 0
    /\ quad_final = 0 /\ U_fin = 0 /\ Urhs = 0 /\ Uin = 0
    /\ dt = 0 /\ solver_SDC = [built |-> FALSE, dt |-> 0]
    /\ apply_pc = "idle" /\ m = 0 /\ k = 0
    /\ call = [x_out |-> "n", x_in |-> "np1"]
    /\ run_pc = "new" /\ t = 0 /\ tmax = 0 /\ physics_list = 0
    /\ x = [nm1 |-> 0, n |-> 0, np1 |-> 0]
    /\ fields = 0 /\ ndump = 0
    /\ hist = NoHist
    /\ IoIdle /\ CnIdle /\ SplitIdle /\ TopoIdle /\ DegIdle /\ ParamsIdle

\* one SDC scheme before its construction: the state of the SDC variables
\* while another part of the program is followed
SdcIdle ==
    /\ variant = "BE_SDC" /\ quadrature = "gauss-radau" /\ M = 1 /\ maxk = 0
    /\ final_update = TRUE /\ dt_coarse = Fx(1) /\ t0 = 0
    /\ timestepper = "Timestepper"
    /\ ctor_pc = "create_nodes" /\ exc = "none"
    /\ nodes = <<>> /\ Q = <<>> /\ S = <<>> /\ Qfin = <<>> /\ dtau = <<>>
    /\ eqn = [imp |-> 0, exp |-> 0] /\ base = "none" /\ base_dt = 0
    /\ Unodes = <<>> /\ Unodes1 = <<>> /\ fUnodes = <<>> /\ quad = <<>>
    /\ U_SDC = 0 /\ U0 = 0 /\ U01 = 0 /\ Un = 0 /\ Q_ = 0
    /\ quad_final = 0 /\ U_fin = 0 /\ Urhs = 0 /\ Uin = 0
    /\ dt = 0 /\ solver_SDC = [built |-> FALSE, dt |-> 0]
    /\ apply_pc = "idle" /\ m = 0 /\ k = 0
    /\ call = [x_out |-> "n", x_in |-> "np1"]
    /\ run_pc = "new" /\ t = 0 /\ tmax = 0 /\ physics_list = 0
    /\ x = [nm1 |-> 0, n |-> 0, np1 |-> 0]
    /\ fields = 0 /\ ndump = 0
    /\ hist = NoHist

\* ------------------------------------------------------------ SDC.__init__
\* line 150: self.create_nodes(self.dt_coarse, quadrature)
CtorCreateNodes ==
    /\ ctor_pc = "create_nodes"
    /\ LET r == create_nodes(M, dt_coarse, quadrature)
       IN  IF r.err = "none"
           THEN /\ nodes' = r.nodes
                /\ ctor_pc' = "Qmatrix"
                /\ exc' = exc
           ELSE /\ nodes' = nodes
                /\ ctor_pc' = "raised"
                /\ exc' = r.err
    /\ UNCHANGED <<otherVars, cfgVars, Q, S, Qfin, dtau, setupVars, workVars, applyVars,
                   runVars, hist>>

\* line 151: self.Qmatrix()
CtorQmatrix ==
    /\ ctor_pc = "Qmatrix"
    /\ Q' = Qmatrix(M, nodes)
    /\ ctor_pc' = "Smatrix"
    /\ UNCHANGED <<otherVars, cfgVars, exc, nodes, S, Qfin, dtau, setupVars, workVars,
                   applyVars, runVars, hist>>

\* line 152: self.Smatrix(); self.S[0, :] raises IndexError when M = 0
CtorSmatrix ==
    /\ ctor_pc = "Smatrix"
    /\ IF M >= 1
       THEN /\ S' = Smatrix(M, Q)
            /\ ctor_pc' = "Qfinal"
            /\ exc' = exc
       ELSE /\ S' = S
            /\ ctor_pc' = "raised"
            /\ exc' = "IndexError"
    /\ UNCHANGED <<otherVars, cfgVars, nodes, Q, Qfin, dtau, setupVars, workVars,
                   applyVars, runVars, hist>>

\* lines 153-154: self.Qfinal(); self.dtau = np.diff(np.append(0, self.nodes))
CtorQfinal ==
    /\ ctor_pc = "Qfinal"
    /\ Qfin' = Qfinal(M, nodes, dt_coarse)
    /\ dtau' = Dtau(nodes)
    /\ ctor_pc' = "constructed"
    /\ UNCHANGED <<otherVars, cfgVars, exc, nodes, Q, S, setupVars, workVars, applyVars,
                   runVars, hist>>

\* ------------------------------------------------------------ SDC.setup
Zeros == [i \in 0..M |-> 0]

Setup ==
    /\ ctor_pc = "constructed"
    /\ eqn' \in Equations
    /\ base' \in BaseSchemes
    /\ Unodes' = Zeros /\ Unodes1' = Zeros /\ fUnodes' = Zeros /\ quad' = Zeros
    /\ ctor_pc' = "setup"
    /\ UNCHANGED <<otherVars, cfgVars, exc, nodes, Q, S, Qfin, dtau, base_dt, U_SDC, U0,
                   U01, Un, Q_, quad_final, U_fin, Urhs, Uin, dt, solver_SDC,
                   applyVars, runVars, hist>>

\* ------------------------------------------------------------ Timestepper.run
\* a time loop that would swallow the exception and try the step again
run_after_raise_retry == "timestep"

\* Nothing between a solve and the caller of run catches an exception
\* (Timestepper.timestep, Timestepper.run): it leaves the time loop.
run_after_raise == "raised"

Raise(e) ==
    /\ exc' = e
    /\ run_pc' = run_after_raise
    /\ apply_pc' = IF run_after_raise = "raised" THEN "raised" ELSE "idle"

Bump(f) == [hist EXCEPT ![f] = @ + 1, !.steps = @ + 1]

\* lines 112-124: setup_diagnostics, setup_dump (the initial dump),
\* dt = state.dt, self.x.initialise(state); tmax is any multiple of half a
\* step, physics_list holds no or one physics scheme
RunStart ==
    /\ ctor_pc = "setup" /\ run_pc = "new"
    /\ \E x0 \in InitialFields, h \in 0..(2 * MaxSteps) :
         /\ fields' = x0
         /\ tmax' = (h * dt_coarse) \div 2
         /\ x' = [nm1 |-> 0, n |-> x0, np1 |-> x0]
    /\ physics_list' \in {0, 1}
    /\ t' = t0
    /\ ndump' = 1
    /\ run_pc' = "loop"
    /\ UNCHANGED <<otherVars, cfgVars, ctorVars, exc, setupVars, workVars, applyVars, hist>>

\* a loop that runs while the time is below the end time
LoopCondPlain(time, end, step) == time < end

\* a loop that still runs when less than half a step is left over
LoopCondLate(time, end, step) == 2 * time < 2 * end + step

\* line 126: while t < tmax - 0.5*dt
LoopCond(time, end, step) == 2 * time < 2 * end - step

\* lines 126-132: t += dt; state.t.assign(t); self.x.update()
RunStep ==
    /\ run_pc = "loop"
    /\ LoopCond(t, tmax, dt_coarse)
    /\ t' = t + dt_coarse
    /\ x' = [nm1 |-> x.n, n |-> x.np1, np1 |-> x.np1]
    /\ run_pc' = "timestep"
    /\ hist' = [hist EXCEPT !.iter = <<"update">>]
    /\ UNCHANGED <<otherVars, cfgVars, ctorVars, exc, setupVars, workVars, applyVars,
                   tmax, physics_list, fields, ndump>>

\* lines 146-149: the loop is left
RunEnd ==
    /\ run_pc = "loop"
    /\ ~LoopCond(t, tmax, dt_coarse)
    /\ run_pc' = "done"
    /\ UNCHANGED <<otherVars, cfgVars, ctorVars, exc, setupVars, workVars, applyVars,
                   t, tmax, physics_list, x, fields, ndump, hist>>

\* a loop that runs the physics right after the timestep, without the copy
after_timestep_physics == "physics"

\* lines 134-137: what follows self.timestep() is the copy of the np1 fields
after_timestep == "copy"

\* Timestepper.timestep line 103, after apply has returned:
\* xn(name).assign(xnp1(name))
TimestepAssign ==
    /\ run_pc = "timestep" /\ apply_pc = "returned"
    /\ x' = [x EXCEPT !.n = x.np1]
    /\ apply_pc' = "idle"
    /\ run_pc' = IF timestepper = "SplitPhysicsTimestepper" THEN "split_physics"
                 ELSE after_timestep
    /\ hist' = [hist EXCEPT !.prev = @ \cup {<<hist.x_in, x[call.x_out]>>},
                            !.iter = Append(@, "assign")]
    /\ UNCHANGED <<otherVars, cfgVars, ctorVars, exc, setupVars, workVars, m, k, call,
                   t, tmax, physics_list, fields, ndump>>

\* lines 136-137: state.fields(field.name()).assign(field) for the np1 fields
RunCopy ==
    /\ run_pc = "copy"
    /\ fields' = x.np1
    /\ run_pc' = "physics"
    /\ hist' = [hist EXCEPT !.iter = Append(@, "copy")]
    /\ UNCHANGED <<otherVars, cfgVars, ctorVars, exc, setupVars, workVars, applyVars,
                   t, tmax, physics_list, x, ndump>>

\* physics.apply(): each physics scheme adds its source to the field store
PhysicsApply(n, f) == f + n * Scale

\* lines 139-141: for physics in self.physics_list: physics.apply()
RunPhysics ==
    /\ run_pc = "physics"
    /\ fields' = PhysicsApply(physics_list, fields)
    /\ run_pc' = "dump"
    /\ hist' = [hist EXCEPT !.iter = Append(@, "physics")]
    /\ UNCHANGED <<otherVars, cfgVars, ctorVars, exc, setupVars, workVars, applyVars,
                   t, tmax, physics_list, x, ndump>>

\* lines 143-144: state.dump(t)
RunDump ==
    /\ run_pc = "dump"
    /\ ndump' = ndump + 1
    /\ run_pc' = "loop"
    /\ hist' = [hist EXCEPT !.iter = Append(@, "dump")]
    /\ UNCHANGED <<otherVars, cfgVars, ctorVars, exc, setupVars, workVars, applyVars,
                   t, tmax, physics_list, x, fields>>

\* ------------------------------------------------------------ apply
\* an apply that keeps the Un the previous call left behind
ApplyStartStale(xin, un) == un

\* line 539: self.Un.assign(x_in), the value every apply starts from
ApplyStart(xin, un) == xin

\* Timestepper.timestep line 102 calls scheme.apply(xn(name), xnp1(name));
\* apply lines 539-543: self.Un.assign(x_in); self.Unodes[0].assign(self.Un)
ApplyBegin ==
    /\ run_pc = "timestep" /\ apply_pc = "idle"
    /\ call' = [x_out |-> "n", x_in |-> "np1"]
    /\ Un' = ApplyStart(x[call'.x_in], Un)
    /\ Unodes' = [Unodes EXCEPT ![0] = Un']
    /\ m' = 0
    /\ apply_pc' = "predict"
    /\ hist' = [NoHist EXCEPT !.x_in = x[call'.x_in], !.written = {0}, !.steps = 1,
                               !.prev = hist.prev,
                               !.iter = Append(hist.iter, "apply")]
    /\ UNCHANGED <<otherVars, cfgVars, ctorVars, exc, setupVars, base_dt, Unodes1, fUnodes,
                   quad, U_SDC, U0, U01, Q_, quad_final, U_fin, Urhs, Uin, dt,
                   solver_SDC, k, run_pc, t, tmax, physics_list, x, fields, ndump>>

\* a prediction that starts every base step from node 0
PredictInputFirst(U, i) == U[0]

\* the node the base scheme starts from in iteration i of the prediction
PredictInput(U, i) == U[i]

\* a prediction that writes its result over the node it started from
PredictTargetSame(i) == i

\* line 546: the base scheme writes into self.Unodes[m+1]
PredictTarget(i) == i + 1

\* lines 544-546: self.base.dt = float(self.dtau[m]);
\* self.base.apply(self.Unodes[m+1], self.Unodes[m])
Predict ==
    /\ apply_pc = "predict" /\ m < M
    /\ base_dt' = dtau[m + 1]
    /\ Unodes' = [Unodes EXCEPT
                    ![PredictTarget(m)] = BaseApply(base, eqn, base_dt', PredictInput(Unodes, m))]
    /\ m' = m + 1
    /\ hist' = [Bump("base") EXCEPT !.written = @ \cup {m + 1}]
    /\ UNCHANGED <<otherVars, cfgVars, ctorVars, exc, setupVars, Unodes1, fUnodes, quad,
                   U_SDC, U0, U01, Un, Q_, quad_final, U_fin, Urhs, Uin, dt,
                   solver_SDC, apply_pc, k, call, run_pc, t, tmax, physics_list, x, fields,
                   ndump>>

\* the base scheme's solve fails
PredictFail ==
    /\ apply_pc = "predict" /\ m < M
    /\ base_dt' = dtau[m + 1]
    /\ Raise("SolverError")
    /\ UNCHANGED <<otherVars, cfgVars, ctorVars, setupVars, Unodes, Unodes1, fUnodes, quad,
                   U_SDC, U0, U01, Un, Q_, quad_final, U_fin, Urhs, Uin, dt,
                   solver_SDC, m, k, call, t, tmax, physics_list, x, fields, ndump, hist>>

\* lines 548-549: the prediction loop is over; k = 0
PredictDone ==
    /\ apply_pc = "predict" /\ m >= M
    /\ k' = 0
    /\ apply_pc' = "sweeps"
    /\ hist' = [hist EXCEPT !.steps = @ + 1]
    /\ UNCHANGED <<otherVars, cfgVars, ctorVars, exc, setupVars, workVars, m, call,
                   run_pc, t, tmax, physics_list, x, fields, ndump>>

\* loop conditions that run one sweep too many, one sweep too few
SweepCondLe(kk, mk) == kk <= mk

SweepCondShort(kk, mk) == kk + 1 < mk

\* line 550: while k < self.maxk
SweepCond(kk, mk) == kk < mk

\* lines 550-551: k += 1
SweepBegin ==
    /\ apply_pc = "sweeps" /\ SweepCond(k, maxk)
    /\ k' = k + 1
    /\ m' = 1
    /\ apply_pc' = "rhs"
    /\ hist' = Bump("sweeps")
    /\ UNCHANGED <<otherVars, cfgVars, ctorVars, exc, setupVars, workVars, call,
                   run_pc, t, tmax, physics_list, x, fields, ndump>>

\* solver_rhs (res_rhs): Urhs is the solution of  Urhs - L(Uin) = 0
SolveRhs(eq, uin) == L(eq, uin)

\* an evaluation of F at the node before
RhsInputBefore(U, i) == U[i - 1]

\* line 555: self.Uin.assign(self.Unodes[m])
RhsInput(U, i) == U[i]

\* lines 554-557: self.Uin.assign(self.Unodes[m]); self.solver_rhs.solve();
\* self.fUnodes[m-1].assign(self.Urhs)
RhsEval ==
    /\ apply_pc = "rhs" /\ m <= M
    /\ Uin' = RhsInput(Unodes, m)
    /\ Urhs' = SolveRhs(eqn, Uin')
    /\ fUnodes' = [fUnodes EXCEPT ![m - 1] = Urhs']
    /\ m' = m + 1
    /\ hist' = Bump("rhs")
    /\ UNCHANGED <<otherVars, cfgVars, ctorVars, exc, setupVars, base_dt, Unodes, Unodes1,
                   quad, U_SDC, U0, U01, Un, Q_, quad_final, U_fin, dt,
                   solver_SDC, apply_pc, k, call, run_pc, t, tmax, physics_list, x, fields,
                   ndump>>

RhsFail ==
    /\ apply_pc = "rhs" /\ m <= M
    /\ Uin' = Unodes[m]
    /\ Raise("SolverError")
    /\ UNCHANGED <<otherVars, cfgVars, ctorVars, setupVars, base_dt, Unodes, Unodes1,
                   fUnodes, quad, U_SDC, U0, U01, Un, Q_, quad_final, U_fin,
                   Urhs, dt, solver_SDC, m, k, call, t, tmax, physics_list, x, fields, ndump,
                   hist>>

\* SDC.compute_quad: quad[j] = sum over k of S[j, k] * fUnodes[k], j < M
compute_quad(Sm, fU, old) ==
    [j \in DOMAIN old |->
       IF j < Len(Sm)
       THEN SeqSum([kk \in 1..Len(Sm) |-> Mul(Sm[j + 1][kk], fU[kk - 1])])
       ELSE old[j]]

\* lines 558-561: self.compute_quad(); self.Unodes1[0].assign(self.Unodes[0])
ComputeQuad ==
    /\ apply_pc = "rhs" /\ m > M
    /\ quad' = compute_quad(S, fUnodes, quad)
    /\ Unodes1' = [Unodes1 EXCEPT ![0] = Unodes[0]]
    /\ m' = 1
    /\ apply_pc' = "solve"
    /\ hist' = [hist EXCEPT !.steps = @ + 1]
    /\ UNCHANGED <<otherVars, cfgVars, ctorVars, exc, setupVars, base_dt, Unodes, fUnodes,
                   U_SDC, U0, U01, Un, Q_, quad_final, U_fin, Urhs, Uin, dt,
                   solver_SDC, k, call, run_pc, t, tmax, physics_list, x, fields, ndump>>

\* The cached solver_SDC is built at its first use from res_SDC, which
\* multiplies the terms by the float self.dt of that moment: later
\* assignments to self.dt do not reach the solver.
SolverBuild(cached, now) == IF cached.built THEN cached ELSE [built |-> TRUE, dt |-> now]

\* a node equation without the term of the current generation
BE_res_SDC_Uncorrected(eq, d, u01, un, q) ==
    Div(un - q, Fx(1) + d * (eq.imp + eq.exp))

\* BE_SDC.res_SDC:  U + d*L(U) - Un - d*L(U01) + Q_ = 0, solved for U
BE_res_SDC(eq, d, u01, un, q) ==
    Div(un + Mul(d, L(eq, u01)) - q, Fx(1) + d * (eq.imp + eq.exp))

\* IMEX_SDC.res_SDC:
\* U + d*Limp(U) - Un + d*Lexp(Un) - d*Limp(U01) - d*Lexp(U0) + Q_ = 0
IMEX_res_SDC(eq, d, u0, u01, un, q) ==
    Div(un - Mul(d, Lexp(eq, un)) + Mul(d, Limp(eq, u01)) + Mul(d, Lexp(eq, u0)) - q,
        Fx(1) + d * eq.imp)

\* SDC.res_SDC, used by FE_SDC, reads self.dt_imp, which nothing assigns:
\* building FE_SDC's solver_SDC raises AttributeError.
SolveSDC_Raises(v) == v = "FE_SDC"

\* lines 562-576 (FE), 717-732 (BE), 883-899 (IMEX): node m of the sweep
NodeSolve ==
    /\ apply_pc = "solve" /\ m <= M
    /\ ~SolveSDC_Raises(variant)
    /\ dt' = dtau[m]
    /\ U01' = Unodes[m]
    /\ U0' = Unodes[m - 1]
    /\ Un' = Unodes1[m - 1]
    /\ Q_' = quad[m - 1]
    /\ solver_SDC' = SolverBuild(solver_SDC, dt')
    /\ U_SDC' = IF variant = "BE_SDC"
                THEN BE_res_SDC(eqn, solver_SDC'.dt, U01', Un', Q_')
                ELSE IMEX_res_SDC(eqn, solver_SDC'.dt, U0', U01', Un', Q_')
    /\ Unodes1' = [Unodes1 EXCEPT ![m] = U_SDC']
    /\ m' = m + 1
    /\ hist' = [Bump("solve") EXCEPT !.out = U_SDC']
    /\ UNCHANGED <<otherVars, cfgVars, ctorVars, exc, setupVars, base_dt, Unodes, fUnodes,
                   quad, quad_final, U_fin, Urhs, Uin, apply_pc, k, call,
                   run_pc, t, tmax, physics_list, x, fields, ndump>>

\* the node solve fails; the assignments before it have been made
NodeSolveFail ==
    /\ apply_pc = "solve" /\ m <= M
    /\ dt' = dtau[m]
    /\ U01' = IF variant = "FE_SDC" THEN U01 ELSE Unodes[m]
    /\ U0' = Unodes[m - 1]
    /\ Un' = Unodes1[m - 1]
    /\ Q_' = quad[m - 1]
    /\ U_SDC' = Unodes[m]
    /\ solver_SDC' = IF SolveSDC_Raises(variant) THEN solver_SDC
                     ELSE SolverBuild(solver_SDC, dt')
    /\ Raise(IF SolveSDC_Raises(variant) THEN "AttributeError" ELSE "SolverError")
    /\ UNCHANGED <<otherVars, cfgVars, ctorVars, setupVars, base_dt, Unodes, Unodes1,
                   fUnodes, quad, quad_final, U_fin, Urhs, Uin, m, k, call,
                   t, tmax, physics_list, x, fields, ndump, hist>>

\* a sweep that leaves the current generation as it was
KeepGeneration(U, U1) == U

\* lines 577-578: for m in range(1, self.M+1):
\* self.Unodes[m].assign(self.Unodes1[m])
NextGeneration(U, U1) == [i \in DOMAIN U |-> IF i >= 1 THEN U1[i] ELSE U[i]]

\* lines 577-580: Unodes[m].assign(Unodes1[m]) for m = 1..M;
\* self.Un.assign(self.Unodes1[-1])
SweepEnd ==
    /\ apply_pc = "solve" /\ m > M
    /\ Unodes' = NextGeneration(Unodes, Unodes1)
    /\ Un' = Unodes1[M]
    /\ apply_pc' = "sweeps"
    /\ hist' = [hist EXCEPT !.steps = @ + 1]
    /\ UNCHANGED <<otherVars, cfgVars, ctorVars, exc, setupVars, base_dt, Unodes1, fUnodes,
                   quad, U_SDC, U0, U01, Q_, quad_final, U_fin, Urhs, Uin, dt,
                   solver_SDC, m, k, call, run_pc, t, tmax, physics_list, x, fields, ndump>>

\* line 597 (753, 920): maxk = 0, x_out.assign(self.Unodes[-1])
ReturnPredicted ==
    /\ apply_pc = "sweeps" /\ ~SweepCond(k, maxk)
    /\ ~(maxk > 0)
    /\ x' = [x EXCEPT ![call.x_out] = Unodes[M]]
    /\ apply_pc' = "returned"
    /\ hist' = [hist EXCEPT !.steps = @ + 1]
    /\ UNCHANGED <<otherVars, cfgVars, ctorVars, exc, setupVars, workVars, m, k, call,
                   run_pc, t, tmax, physics_list, fields, ndump>>

\* an output taken from node 0 instead of the last node
LastNodeOutputFirst(v, U1, un) == U1[1]

\* what apply hands back when final_update is False: line 595 (FE), 751 (BE)
\* x_out.assign(self.Unodes1[-1]); line 918 (IMEX) x_out.assign(self.Un)
LastNodeOutput(v, U1, un) == IF v = "IMEX_SDC" THEN un ELSE U1[Len(U1)]

\* lines 581-583, 593-595: maxk > 0 and not final_update
ReturnLastNode ==
    /\ apply_pc = "sweeps" /\ ~SweepCond(k, maxk)
    /\ maxk > 0 /\ ~final_update
    /\ x' = [x EXCEPT ![call.x_out] =
                LastNodeOutput(variant, [i \in 1..(M + 1) |-> Unodes1[i - 1]], Un)]
    /\ apply_pc' = "returned"
    /\ hist' = [hist EXCEPT !.steps = @ + 1]
    /\ UNCHANGED <<otherVars, cfgVars, ctorVars, exc, setupVars, workVars, m, k, call,
                   run_pc, t, tmax, physics_list, fields, ndump>>

\* lines 581-584: maxk > 0 and final_update, the final update starts
FinalBegin ==
    /\ apply_pc = "sweeps" /\ ~SweepCond(k, maxk)
    /\ maxk > 0 /\ final_update
    /\ m' = 1
    /\ apply_pc' = "fin_rhs"
    /\ hist' = [hist EXCEPT !.steps = @ + 1]
    /\ UNCHANGED <<otherVars, cfgVars, ctorVars, exc, setupVars, workVars, k, call,
                   run_pc, t, tmax, physics_list, x, fields, ndump>>

\* lines 584-587: self.Uin.assign(self.Unodes1[m]); self.solver_rhs.solve();
\* self.fUnodes[m-1].assign(self.Urhs)
FinalRhs ==
    /\ apply_pc = "fin_rhs" /\ m <= M
    /\ Uin' = Unodes1[m]
    /\ Urhs' = SolveRhs(eqn, Uin')
    /\ fUnodes' = [fUnodes EXCEPT ![m - 1] = Urhs']
    /\ m' = m + 1
    /\ hist' = Bump("fin_rhs")
    /\ UNCHANGED <<otherVars, cfgVars, ctorVars, exc, setupVars, base_dt, Unodes, Unodes1,
                   quad, U_SDC, U0, U01, Un, Q_, quad_final, U_fin, dt,
                   solver_SDC, apply_pc, k, call, run_pc, t, tmax, physics_list, x, fields,
                   ndump>>

FinalRhsFail ==
    /\ apply_pc = "fin_rhs" /\ m <= M
    /\ Uin' = Unodes1[m]
    /\ Raise("SolverError")
    /\ UNCHANGED <<otherVars, cfgVars, ctorVars, setupVars, base_dt, Unodes, Unodes1,
                   fUnodes, quad, U_SDC, U0, U01, Un, Q_, quad_final, U_fin,
                   Urhs, dt, solver_SDC, m, k, call, t, tmax, physics_list, x, fields, ndump,
                   hist>>

\* SDC.compute_quad_final: sum over k of Qfin[k] * fUnodes[k]
compute_quad_final(Qf, fU) ==
    SeqSum([kk \in 1..Len(Qf) |-> Mul(Qf[kk], fU[kk - 1])])

\* a final update that starts from the last node of the last sweep
FinalStartLastNode(xin, un) == un

\* line 588: self.Un.assign(x_in), the value the final update starts from
FinalStart(xin, un) == xin

\* SDC.res_fin:  U_fin - Un + quad_final = 0, solved for U_fin
res_fin(un, qf) == un - qf

\* lines 588-592: self.Un.assign(x_in); self.compute_quad_final();
\* self.solver_fin.solve(); x_out.assign(self.U_fin)
FinalSolve ==
    /\ apply_pc = "fin_rhs" /\ m > M
    /\ Un' = FinalStart(x[call.x_in], Un)
    /\ quad_final' = compute_quad_final(Qfin, fUnodes)
    /\ U_fin' = res_fin(Un', quad_final')
    /\ x' = [x EXCEPT ![call.x_out] = U_fin']
    /\ apply_pc' = "returned"
    /\ hist' = Bump("fin")
    /\ UNCHANGED <<otherVars, cfgVars, ctorVars, exc, setupVars, base_dt, Unodes, Unodes1,
                   fUnodes, quad, U_SDC, U0, U01, Q_, Urhs, Uin, dt, solver_SDC,
                   m, k, call, run_pc, t, tmax, physics_list, fields, ndump>>

FinalSolveFail ==
    /\ apply_pc = "fin_rhs" /\ m > M
    /\ Un' = FinalStart(x[call.x_in], Un)
    /\ quad_final' = compute_quad_final(Qfin, fUnodes)
    /\ Raise("SolverError")
    /\ UNCHANGED <<otherVars, cfgVars, ctorVars, setupVars, base_dt, Unodes, Unodes1,
                   fUnodes, quad, U_SDC, U0, U01, Q_, U_fin, Urhs, Uin, dt,
                   solver_SDC, m, k, call, t, tmax, physics_list, x, fields, ndump, hist>>

\* ------------------------------------------------------------ specification
Next ==
    \/ CtorCreateNodes \/ CtorQmatrix \/ CtorSmatrix \/ CtorQfinal \/ Setup
    \/ RunStart \/ RunStep \/ RunEnd \/ TimestepAssign
    \/ RunCopy \/ RunPhysics \/ RunDump
    \/ ApplyBegin \/ Predict \/ PredictFail \/ PredictDone
    \/ SweepBegin \/ RhsEval \/ RhsFail \/ ComputeQuad
    \/ NodeSolve \/ NodeSolveFail \/ SweepEnd
    \/ ReturnPredicted \/ ReturnLastNode
    \/ FinalBegin \/ FinalRhs \/ FinalRhsFail \/ FinalSolve \/ FinalSolveFail

Spec == Init /\ [][Next]_vars

\* ------------------------------------------------------------
\* SplitPhysicsTimestepper.timestep
\* line 222: scheme.apply(self.x.np1(scheme.field_name),
\* self.x.np1(scheme.field_name)), the same field as output and as input
AliasedCall == [x_out |-> "np1", x_in |-> "np1"]

\* lines 218-222: after super().timestep() the physics scheme, here the SDC
\* scheme itself, is applied to the level-n+1 field in place
\* (apply lines 539-543)
SplitPhysicsApplyBegin ==
    /\ run_pc = "split_physics" /\ apply_pc = "idle"
    /\ call' = AliasedCall
    /\ Un' = ApplyStart(x[call'.x_in], Un)
    /\ Unodes' = [Unodes EXCEPT ![0] = Un']
    /\ m' = 0
    /\ apply_pc' = "predict"
    /\ hist' = [NoHist EXCEPT !.x_in = x[call'.x_in], !.written = {0}, !.steps = 1,
                               !.prev = hist.prev,
                               !.iter = Append(hist.iter, "apply")]
    /\ UNCHANGED <<otherVars, cfgVars, ctorVars, exc, setupVars, base_dt, Unodes1, fUnodes,
                   quad, U_SDC, U0, U01, Q_, quad_final, U_fin, Urhs, Uin, dt,
                   solver_SDC, k, run_pc, t, tmax, physics_list, x, fields, ndump>>

\* line 222 has returned: timestep is over, run goes on at line 136
SplitPhysicsDone ==
    /\ run_pc = "split_physics" /\ apply_pc = "returned"
    /\ apply_pc' = "idle"
    /\ run_pc' = after_timestep
    /\ hist' = [hist EXCEPT !.prev = @ \cup {<<hist.x_in, x[call.x_out]>>}]
    /\ UNCHANGED <<otherVars, cfgVars, ctorVars, exc, setupVars, workVars, m, k, call,
                   t, tmax, physics_list, x, fields, ndump>>

\* a run of a SplitPhysicsTimestepper whose scheme and physics scheme are
\* one SDC scheme; the step is one at which the base schemes are stable, so
\* that the field stays in range from step to step
InitAlias ==
    /\ variant \in Variants
    /\ quadrature = "gauss-radau"
    /\ M \in 1..MaxM
    /\ maxk \in 0..MaxMaxk
    /\ final_update \in BOOLEAN
    /\ dt_coarse = Fx(1)
    /\ t0 = 0 /\ timestepper = "SplitPhysicsTimestepper"
    /\ ctor_pc = "create_nodes"
    /\ exc = "none"
    /\ nodes = <<>> /\ Q = <<>> /\ S = <<>> /\ Qfin = <<>> /\ dtau = <<>>
    /\ eqn = [imp |-> 0, exp |-> 0] /\ base = "none" /\ base_dt = 0
    /\ Unodes = <<>> /\ Unodes1 = <<>> /\ fUnodes = <<>> /\ quad = <<>>
    /\ U_SDC = 0 /\ U0 = 0 /\ U01 = 0 /\ Un = 0 /\ Q_ = 0
    /\ quad_final = 0 /\ U_fin = 0 /\ Urhs = 0 /\ Uin = 0
    /\ dt = 0 /\ solver_SDC = [built |-> FALSE, dt |-> 0]
    /\ apply_pc = "idle" /\ m = 0 /\ k = 0
    /\ call = [x_out |-> "n", x_in |-> "np1"]
    /\ run_pc = "new" /\ t = 0 /\ tmax = 0 /\ physics_list = 0
    /\ x = [nm1 |-> 0, n |-> 0, np1 |-> 0]
    /\ fields = 0 /\ ndump = 0
    /\ hist = NoHist
    /\ IoIdle /\ CnIdle /\ SplitIdle /\ TopoIdle /\ DegIdle /\ ParamsIdle

NextAlias == Next \/ SplitPhysicsApplyBegin \/ SplitPhysicsDone

SpecAlias == InitAlias /\ [][NextAlias]_vars

\* Timestepper.run from any start time t0 with one small scheme: the loop
\* of run depends on the scheme only through apply returning or raising
StartTimes(step) == {0, step \div 2, step}

InitRun ==
    /\ variant = "BE_SDC"
    /\ quadrature = "gauss-radau"
    /\ M = 1
    /\ maxk \in 0..1
    /\ final_update \in BOOLEAN
    /\ dt_coarse \in { Fx(d) : d \in 1..MaxDt }
    /\ t0 \in StartTimes(dt_coarse)
    /\ timestepper = "Timestepper"
    /\ ctor_pc = "create_nodes"
    /\ exc = "none"
    /\ nodes = <<>> /\ Q = <<>> /\ S = <<>> /\ Qfin = <<>> /\ dtau = <<>>
    /\ eqn = [imp |-> 0, exp |-> 0] /\ base = "none" /\ base_dt = 0
    /\ Unodes = <<>> /\ Unodes1 = <<>> /\ fUnodes = <<>> /\ quad = <<>>
    /\ U_SDC = 0 /\ U0 = 0 /\ U01 = 0 /\ Un = 0 /\ Q_ = 0
    /\ quad_final = 0 /\ U_fin = 0 /\ Urhs = 0 /\ Uin = 0
    /\ dt = 0 /\ solver_SDC = [built |-> FALSE, dt |-> 0]
    /\ apply_pc = "idle" /\ m = 0 /\ k = 0
    /\ call = [x_out |-> "n", x_in |-> "np1"]
    /\ run_pc = "new" /\ t = 0 /\ tmax = 0 /\ physics_list = 0
    /\ x = [nm1 |-> 0, n |-> 0, np1 |-> 0]
    /\ fields = 0 /\ ndump = 0
    /\ hist = NoHist
    /\ IoIdle /\ CnIdle /\ SplitIdle /\ TopoIdle /\ DegIdle /\ ParamsIdle

\* the statements of setup, run and apply
RunNext ==
    \/ Setup
    \/ RunStart \/ RunStep \/ RunEnd \/ TimestepAssign
    \/ RunCopy \/ RunPhysics \/ RunDump
    \/ ApplyBegin \/ Predict \/ PredictFail \/ PredictDone
    \/ SweepBegin \/ RhsEval \/ RhsFail \/ ComputeQuad
    \/ NodeSolve \/ NodeSolveFail \/ SweepEnd
    \/ ReturnPredicted \/ ReturnLastNode
    \/ FinalBegin \/ FinalRhs \/ FinalRhsFail \/ FinalSolve \/ FinalSolveFail

\* The program is sequential: once the scheme is constructed, whenever a
\* statement can be executed, one is.
SpecRun == InitRun /\ [][Next]_vars /\ WF_vars(RunNext)

\* ------------------------------------------------------------ IO.dump
\* the IO object with any OutputParameters: each kind on or off, each
\* frequency from 1 to MaxFreq, pddumpfreq possibly None (0)
InitIO ==
    /\ SdcIdle /\ ParamsIdle
    /\ output \in [dump_vtus : BOOLEAN, checkpoint : BOOLEAN, point_data : BOOLEAN,
                    dumpfreq : 1..MaxFreq, chkptfreq : 1..MaxFreq,
                    pddumpfreq : 0..MaxFreq]
    /\ dumpcount = -1 /\ chkptcount = -1 /\ pddumpcount = -1
    /\ io_pc = "new" /\ io_log = <<>>
    /\ CnIdle /\ SplitIdle /\ TopoIdle /\ DegIdle

\* a test that is true one call late: (count + 1) % freq == 0
DumpDueNext(count, freq) == (count + 1) % freq = 0

\* lines 411, 416, 421: (next(counter) % freq) == 0
DumpDue(count, freq) == count % freq = 0

\* IO.dump lines 411-427 on the counters c = <<pddumpcount, chkptcount,
\* dumpcount>>: what is written, and the counters afterwards; a counter is
\* consulted, and so advanced, only when its kind is enabled
dump(out, c) ==
    LET pd    == out.point_data /\ DumpDue(c[1], out.pddumpfreq)
        chk   == out.checkpoint /\ DumpDue(c[2], out.chkptfreq)
        vtu   == out.dump_vtus /\ DumpDue(c[3], out.dumpfreq)
    IN  [wrote |-> [pd |-> pd, chkpt |-> chk, vtu |-> vtu],
         counts |-> <<IF out.point_data THEN c[1] + 1 ELSE c[1],
                      IF out.checkpoint THEN c[2] + 1 ELSE c[2],
                      IF out.dump_vtus THEN c[3] + 1 ELSE c[3]>>]

\* IO.setup_dump lines 281-359: the counters of the enabled kinds are created,
\* pddumpfreq defaults to dumpfreq, and the initial fields are dumped
SetupDump ==
    /\ io_pc = "new"
    /\ LET out == IF output.point_data /\ output.pddumpfreq = 0
                  THEN [output EXCEPT !.pddumpfreq = output.dumpfreq]
                  ELSE output
           c0  == <<IF out.point_data THEN 0 ELSE -1,
                    IF out.checkpoint THEN 0 ELSE -1,
                    IF out.dump_vtus THEN 0 ELSE -1>>
           r   == dump(out, c0)
       IN  /\ output' = out
           /\ pddumpcount' = r.counts[1]
           /\ chkptcount' = r.counts[2]
           /\ dumpcount' = r.counts[3]
           /\ io_log' = <<r.wrote>>
    /\ io_pc' = "ready"
    /\ UNCHANGED <<sdcVars, degVars, paramVars, cnVars, splitVars, topoVars>>

\* IO.dump lines 389-427, called once per timestep (timeloop.py:144)
Dump ==
    /\ io_pc = "ready"
    /\ Len(io_log) < MaxDumps
    /\ LET r == dump(output, <<pddumpcount, chkptcount, dumpcount>>)
       IN  /\ pddumpcount' = r.counts[1]
           /\ chkptcount' = r.counts[2]
           /\ dumpcount' = r.counts[3]
           /\ io_log' = Append(io_log, r.wrote)
    /\ UNCHANGED <<sdcVars, degVars, paramVars, cnVars, splitVars, topoVars, output, io_pc>>

NextIO == SetupDump \/ Dump

SpecIO == InitIO /\ [][NextIO]_vars

\* ------------------------------------------------------------ CrankNicolson
\* results of the forcing and of the linear solver, which are not part of
\* the time loop: any of a few values
ForcingValues == {0, 2}
SolverResults == {1, -3}

\* a CrankNicolson stepper with any maxk and maxi, on any level-n+1 field
InitCN ==
    /\ SdcIdle /\ ParamsIdle /\ IoIdle /\ SplitIdle /\ TopoIdle /\ DegIdle
    /\ cn_maxk \in 0..MaxOuter /\ maxi \in 0..MaxInner
    /\ cn_pc = "idle" /\ cn_k = 0 /\ cn_i = 0
    /\ xnp1 \in {0, 5} /\ xrhs = 0 /\ dy = 0
    /\ cn_hist = NoCnHist

\* lines 242-243: self.forcing.apply(xn, xn, xstar(self.field_name), "explicit")
CNExplicitForcing ==
    /\ cn_pc = "idle" /\ cn_hist.steps < MaxCnSteps
    /\ cn_k' = 0
    /\ cn_pc' = "outer"
    /\ cn_hist' = [NoCnHist EXCEPT !.explicit = 1, !.start = xnp1,
                                   !.steps = cn_hist.steps]
    /\ UNCHANGED <<sdcVars, degVars, paramVars, ioVars, splitVars, topoVars, cn_maxk, maxi, cn_i, xnp1, xrhs, dy>>

\* lines 245-252: for k in range(self.maxk): the transport schemes are
\* applied from xstar to xp, and xrhs.assign(0.)
CNTransport ==
    /\ cn_pc = "outer" /\ cn_k < cn_maxk
    /\ cn_k' = cn_k + 1
    /\ cn_i' = 0
    /\ xrhs' = 0
    /\ cn_pc' = "inner"
    /\ cn_hist' = [cn_hist EXCEPT !.transport = @ + 1]
    /\ UNCHANGED <<sdcVars, degVars, paramVars, ioVars, splitVars, topoVars, cn_maxk, maxi, xnp1, dy>>

\* a step that replaces the solution by the solver's result
ReplaceByDy(old, d) == d

\* lines 264-265: xnp1X = xnp1(self.field_name); xnp1X += dy
IncrementByDy(old, d) == old + d

\* lines 254-265: for i in range(self.maxi): the implicit forcing is written
\* to xrhs, xrhs -= xnp1, the linear solver puts its result in dy, xnp1 += dy
CNInner ==
    /\ cn_pc = "inner" /\ cn_i < maxi
    /\ \E f \in ForcingValues, d \in SolverResults :
         /\ xrhs' = f - xnp1
         /\ dy' = d
         /\ xnp1' = IncrementByDy(xnp1, d)
         /\ cn_hist' = [cn_hist EXCEPT !.implicit = @ + 1, !.solve = @ + 1,
                                       !.sum_dy = @ + d]
    /\ cn_i' = cn_i + 1
    /\ UNCHANGED <<sdcVars, degVars, paramVars, ioVars, splitVars, topoVars, cn_maxk, maxi, cn_pc, cn_k>>

\* line 267: self._apply_bcs(), after the inner loop of this outer iteration
CNApplyBcs ==
    /\ cn_pc = "inner" /\ cn_i >= maxi
    /\ cn_pc' = "outer"
    /\ cn_hist' = [cn_hist EXCEPT !.bcs = @ + 1, !.bcs_at = @ \cup {cn_hist.solve}]
    /\ UNCHANGED <<sdcVars, degVars, paramVars, ioVars, splitVars, topoVars, cn_maxk, maxi, cn_k, cn_i, xnp1, xrhs, dy>>

\* lines 269-275: the auxiliary schemes, then the diffusion schemes; the
\* timestep returns
CNFinish ==
    /\ cn_pc = "outer" /\ cn_k >= cn_maxk
    /\ cn_pc' = "idle"
    /\ cn_hist' = [cn_hist EXCEPT !.late = @ + 1, !.steps = @ + 1]
    /\ UNCHANGED <<sdcVars, degVars, paramVars, ioVars, splitVars, topoVars, cn_maxk, maxi, cn_k, cn_i, xnp1, xrhs, dy>>

NextCN == CNExplicitForcing \/ CNTransport \/ CNInner \/ CNApplyBcs \/ CNFinish

SpecCN == InitCN /\ [][NextCN]_vars

\* ------------------------------------------------------------ SplitTimestepper
DynamicsLabels == {"transport", "diffusion", "forcing"}

\* any term_splitting list, any equation, schemes given or not
InitSplit ==
    /\ SdcIdle /\ ParamsIdle /\ IoIdle /\ CnIdle /\ TopoIdle /\ DegIdle
    /\ term_splitting \in SUBSET (DynamicsLabels \cup {"physics"})
    /\ physics_schemes \in BOOLEAN /\ dynamics_schemes \in BOOLEAN
    /\ eq_terms \in SUBSET DynamicsLabels
    /\ split_pc = "new" /\ split_exc = "none"

\* line 80: self.residual.label_map(..., map_if_true=keep). The module imports
\* only Label and drop from firedrake.fml, so the name keep is not defined:
\* NameError, or AttributeError if the base class has set no self.residual.
Line80Errors == {"NameError", "AttributeError"}

\* SplitTimestepper.__init__ lines 44-94, the exceptions it can end with:
\* line 52 ValueError when physics is split and physics_schemes is None;
\* line 66 AttributeError from None.items() when dynamics_schemes is None;
\* line 80 otherwise. The test of lines 87-94 is never reached.
SplitInitErrors(ts, phys, dyn) ==
    IF "physics" \in ts /\ ~phys THEN {"ValueError"}
    ELSE IF ~dyn THEN {"AttributeError"}
    ELSE Line80Errors

SplitConstruct ==
    /\ split_pc = "new"
    /\ split_exc' \in SplitInitErrors(term_splitting, physics_schemes,
                                       dynamics_schemes)
    /\ split_pc' = "raised"
    /\ UNCHANGED <<sdcVars, degVars, paramVars, ioVars, cnVars, topoVars, term_splitting, physics_schemes,
                   dynamics_schemes, eq_terms>>

NextSplit == SplitConstruct

SpecSplit == InitSplit /\ [][NextSplit]_vars

\* ------------------------------------------------------------ topo_sort
\* any dependencies among up to MaxFields diagnostic fields, named 1..n in
\* the order of the list; IO.setup_diagnostics line 239 hands over each
\* field's dependencies as a sorted list without repetitions
InitTopo ==
    /\ SdcIdle /\ ParamsIdle /\ IoIdle /\ CnIdle /\ SplitIdle /\ DegIdle
    /\ \E n \in 0..MaxFields :
         field_deps \in { [f \in 1..n |-> SetToSortedSeq(d[f])] :
                           d \in [1..n -> SUBSET (1..n)] }
    /\ graph = <<>> /\ topo_roots = <<>> /\ schedule = <<>>
    /\ topo_pc = "new"

\* list.remove(v): the list without the first occurrence of v
RECURSIVE ListRemove(_, _)
ListRemove(l, v) ==
    IF l = <<>> THEN <<>>
    ELSE IF Head(l) = v THEN Tail(l)
    ELSE <<Head(l)>> \o ListRemove(Tail(l), v)

\* lines 522-534: graph maps each field to (list(deps), []); a field without
\* dependencies goes to roots; each field is added to the output
\* dependencies of the fields it depends on
TopoStart ==
    /\ topo_pc = "new"
    /\ graph' = [f \in 1..Len(field_deps) |->
                   [ins  |-> field_deps[f],
                    outs |-> SelectSeq([g \in 1..Len(field_deps) |-> g],
                                       LAMBDA g : \E i \in 1..Len(field_deps[g]) :
                                                    field_deps[g][i] = f)]]
    /\ topo_roots' = SelectSeq([f \in 1..Len(field_deps) |-> f],
                               LAMBDA f : Len(field_deps[f]) = 0)
    /\ schedule' = <<>>
    /\ topo_pc' = "loop"
    /\ UNCHANGED <<sdcVars, degVars, paramVars, ioVars, cnVars, splitVars, field_deps>>

\* a field that is taken as ready whatever dependencies it has left
ReadyAlways(ins) == TRUE

\* line 544: if len(graph[m][0]) == 0
Ready(ins) == Len(ins) = 0

\* lines 539-545, for the output dependencies outs[i..] of the field n:
\* the edge n -> m is removed from both lists, and m goes to roots when it
\* has no input dependency left; the result is the pair <<graph, roots>>
RECURSIVE RemoveEdges(_, _, _, _, _)
RemoveEdges(g, r, n, outs, i) ==
    IF i > Len(outs) THEN <<g, r>>
    ELSE LET mm == outs[i]
             g1 == [g EXCEPT ![mm].ins = ListRemove(@, n)]
             g2 == [g1 EXCEPT ![n].outs = ListRemove(@, mm)]
         IN  RemoveEdges(g2, IF Ready(g2[mm].ins) THEN Append(r, mm) ELSE r,
                         n, outs, i + 1)

\* lines 535-545: one pass of `while roots`: n = roots.pop();
\* schedule.append(n); the edges out of n are removed
TopoPop ==
    /\ topo_pc = "loop" /\ Len(topo_roots) > 0
    /\ LET n == topo_roots[Len(topo_roots)]
           r == RemoveEdges(graph, SubSeq(topo_roots, 1, Len(topo_roots) - 1),
                            n, graph[n].outs, 1)
       IN  /\ schedule' = Append(schedule, n)
           /\ graph' = r[1]
           /\ topo_roots' = r[2]
    /\ UNCHANGED <<sdcVars, degVars, paramVars, ioVars, cnVars, splitVars, field_deps, topo_pc>>

\* a test that never finds a dependency left
NoLeftover(g) == FALSE

\* line 546: any(len(i) for i, _ in graph.values())
HasLeftover(g) == \E f \in 1..Len(g) : Len(g[f].ins) > 0

\* lines 546-550: RuntimeError if a field has an input dependency left,
\* otherwise the schedule is returned
TopoFinish ==
    /\ topo_pc = "loop" /\ Len(topo_roots) = 0
    /\ topo_pc' = IF HasLeftover(graph) THEN "RuntimeError" ELSE "returned"
    /\ UNCHANGED <<sdcVars, degVars, paramVars, ioVars, cnVars, splitVars, field_deps, graph,
                   topo_roots, schedule>>

NextTopo == TopoStart \/ TopoPop \/ TopoFinish

SpecTopo == InitTopo /\ [][NextTopo]_vars

\* ------------------------------------------------------------ the solver
\* parameters of SDC
\* lines 134-137
DefaultLinear == Options("dict", "ksponly", "cg", "bjacobi", "ilu")

\* lines 141-144
DefaultNonlinear == Options("dict", "newtonls", "gmres", "bjacobi", "ilu")

\* the dictionaries a caller may hand over
SolverDicts ==
    { Options("dict", snes, ksp, pc, "ilu") :
        snes \in {"ksponly", "newtonls"}, ksp \in {"cg", "gmres"},
        pc \in {"bjacobi", "lu"} }

\* SDC.__init__ called with each argument None (its default) or a dictionary
InitParams ==
    /\ SdcIdle /\ IoIdle /\ CnIdle /\ SplitIdle /\ TopoIdle /\ DegIdle
    /\ arg_linear \in SolverDicts \cup {None}
    /\ arg_nonlinear \in SolverDicts \cup {None}
    /\ linear_solver_parameters = Unset /\ nonlinear_solver_parameters = Unset
    /\ solver_rhs_parameters = Unset /\ solver_fin_parameters = Unset
    /\ params_pc = "linear"

\* lines 133-138: the default is assigned when the argument is None, and
\* line 138, which is not under an else, then assigns the argument
CtorLinearParameters ==
    /\ params_pc = "linear"
    /\ LET line137 == IF arg_linear = None THEN DefaultLinear
                      ELSE linear_solver_parameters
           line138 == arg_linear
       IN  linear_solver_parameters' = line138
    /\ params_pc' = "nonlinear"
    /\ UNCHANGED <<sdcVars, degVars, ioVars, cnVars, splitVars, topoVars, arg_linear,
                   arg_nonlinear, nonlinear_solver_parameters,
                   solver_rhs_parameters, solver_fin_parameters>>

\* lines 140-146
CtorNonlinearParameters ==
    /\ params_pc = "nonlinear"
    /\ nonlinear_solver_parameters' =
         IF arg_nonlinear = None THEN DefaultNonlinear ELSE arg_nonlinear
    /\ params_pc' = "constructed"
    /\ UNCHANGED <<sdcVars, degVars, ioVars, cnVars, splitVars, topoVars, arg_linear,
                   arg_nonlinear, linear_solver_parameters,
                   solver_rhs_parameters, solver_fin_parameters>>

\* lines 287-294, solver_rhs, built at its first use:
\* NonlinearVariationalSolver(prob_rhs,
\*     solver_parameters=self.linear_solver_parameters, ...)
BuildSolverRhs ==
    /\ params_pc = "constructed" /\ solver_rhs_parameters = Unset
    /\ solver_rhs_parameters' = linear_solver_parameters
    /\ UNCHANGED <<sdcVars, degVars, ioVars, cnVars, splitVars, topoVars, arg_linear,
                   arg_nonlinear, linear_solver_parameters,
                   nonlinear_solver_parameters, solver_fin_parameters, params_pc>>

\* lines 269-276, solver_fin, built at its first use after solver_rhs (the
\* final update evaluates F first)
BuildSolverFin ==
    /\ params_pc = "constructed" /\ solver_rhs_parameters # Unset
    /\ solver_fin_parameters = Unset
    /\ solver_fin_parameters' = linear_solver_parameters
    /\ UNCHANGED <<sdcVars, degVars, ioVars, cnVars, splitVars, topoVars, arg_linear,
                   arg_nonlinear, linear_solver_parameters,
                   nonlinear_solver_parameters, solver_rhs_parameters, params_pc>>

NextParams ==
    CtorLinearParameters \/ CtorNonlinearParameters \/ BuildSolverRhs
    \/ BuildSolverFin

SpecParams == InitParams /\ [][NextParams]_vars

\* ------------------------------------------------------------ IMEX_SDC
\* with all terms under one label
\* equations whose terms other than the time derivative are all labelled
\* implicit, or all labelled explicit
OneLabelEquations ==
    { [imp |-> c, exp |-> 0] : c \in 1..2 } \cup { [imp |-> 0, exp |-> c] : c \in 1..2 }

\* values of the fields that enter a node solve
SolveFields == { -Fx(1), Fx(2) }

\* one node solve with any sub-step and any values of U0, U01, Un and Q_
InitDeg ==
    /\ SdcIdle /\ IoIdle /\ CnIdle /\ SplitIdle /\ TopoIdle /\ ParamsIdle
    /\ deg_eqn \in OneLabelEquations
    /\ deg_dt \in { Fx(1) \div 2, Fx(1) }
    /\ deg_U0 \in SolveFields /\ deg_U01 \in SolveFields /\ deg_Un \in SolveFields
    /\ deg_Q_ \in { 0, Fx(1) \div 4 }
    /\ imex_result = NotSolved /\ pure_result = NotSolved

\* lines 885-899: the node solve of IMEX_SDC, with the residual of lines
\* 807-842
ImexNodeSolve ==
    /\ imex_result = NotSolved
    /\ imex_result' = Solved(IMEX_res_SDC(deg_eqn, deg_dt, deg_U0, deg_U01, deg_Un, deg_Q_))
    /\ UNCHANGED <<sdcVars, ioVars, cnVars, splitVars, topoVars, paramVars, deg_eqn,
                   deg_dt, deg_U0, deg_U01, deg_Un, deg_Q_, pure_result>>

\* lines 719-732: the node solve of BE_SDC for the equation with all terms
\* implicit, with the residual of lines 651-676
BeNodeSolve ==
    /\ pure_result = NotSolved /\ deg_eqn.exp = 0
    /\ pure_result' = Solved(BE_res_SDC(deg_eqn, deg_dt, deg_U01, deg_Un, deg_Q_))
    /\ UNCHANGED <<sdcVars, ioVars, cnVars, splitVars, topoVars, paramVars, deg_eqn,
                   deg_dt, deg_U0, deg_U01, deg_Un, deg_Q_, imex_result>>

\* lines 564-576: the node solve of FE_SDC for the equation with all terms
\* explicit; solver_SDC (524-531) builds res_SDC (216-245), whose line 220
\* reads self.dt_imp, an attribute that nothing assigns
FeNodeSolve ==
    /\ pure_result = NotSolved /\ deg_eqn.imp = 0
    /\ SolveSDC_Raises("FE_SDC")
    /\ pure_result' = Raised("AttributeError")
    /\ UNCHANGED <<sdcVars, ioVars, cnVars, splitVars, topoVars, paramVars, deg_eqn,
                   deg_dt, deg_U0, deg_U01, deg_Un, deg_Q_, imex_result>>

NextDeg == ImexNodeSolve \/ BeNodeSolve \/ FeNodeSolve

SpecDeg == InitDeg /\ [][NextDeg]_vars

\* ------------------------------------------------------------ properties
Constructed == ctor_pc \in {"constructed", "setup"}

\* the value at the last node when the base scheme alone marches from y over
\* the sub-intervals [nd[i-1], nd[i]], the first one starting at 0
RECURSIVE March(_, _, _, _, _)
March(b, eq, y, nd, i) ==
    IF i > Len(nd) THEN y
    ELSE March(b, eq,
               BaseApply(b, eq, nd[i] - (IF i = 1 THEN 0 ELSE nd[i - 1]), y),
               nd, i + 1)

\* C1: with maxk = 0 apply performs no sweep, no right-hand-side evaluation,
\* no node solve and no final-update solve, and x_out is the value the base
\* scheme alone gives by marching from x_in over the M sub-intervals, for
\* every variant and whatever final_update is.
C1_Maxk0IsBaseScheme ==
    (apply_pc # "idle" /\ maxk = 0) =>
        /\ hist.sweeps = 0 /\ hist.rhs = 0 /\ hist.solve = 0
        /\ hist.fin_rhs = 0 /\ hist.fin = 0
        /\ apply_pc = "returned" =>
             x[call.x_out] = March(base, eqn, hist.x_in, nodes, 1)

C1_Witness ==
    /\ apply_pc = "returned" /\ maxk = 0 /\ final_update
    /\ variant = "IMEX_SDC" /\ M >= 2 /\ hist.base = M
    /\ x[call.x_out] # hist.x_in

\* the number of steps apply takes at most, a function of M and maxk alone
StepBound(nodeCount, sweeps) ==
    (nodeCount + 2) + sweeps * (2 * nodeCount + 3) + (nodeCount + 2)

\* C2: apply runs exactly maxk sweeps, each of M right-hand-side evaluations
\* followed by M node solves, and returns after a number of steps bounded by
\* M and maxk alone; the count never depends on the node values.
C2_ExactlyMaxkSweeps ==
    (apply_pc \notin {"idle", "raised"}) =>
        /\ hist.sweeps <= maxk
        /\ hist.steps <= StepBound(M, maxk)
        /\ apply_pc = "rhs" =>
             /\ hist.rhs = (hist.sweeps - 1) * M + (m - 1)
             /\ hist.solve = (hist.sweeps - 1) * M
        /\ apply_pc = "solve" =>
             /\ hist.rhs = hist.sweeps * M
             /\ hist.solve = (hist.sweeps - 1) * M + (m - 1)
        /\ apply_pc = "returned" =>
             /\ hist.sweeps = maxk
             /\ hist.rhs = maxk * M
             /\ hist.solve = maxk * M

C2_Witness ==
    /\ apply_pc = "returned" /\ maxk >= 2 /\ M >= 2
    /\ hist.sweeps = maxk /\ hist.solve = maxk * M

\* C3: with maxk > 0 and final_update, exactly one final-update solve is made,
\* after the last sweep and after F has been re-evaluated at every node of the
\* last sweep, and x_out = x_in + sum_k Qfin[k] * F(node k) with x_in the
\* ORIGINAL input of the step (F = -L).
C3_FinalUpdateFromStepInput ==
    /\ hist.fin <= 1
    /\ (hist.fin = 1) => (hist.sweeps = maxk /\ hist.fin_rhs = M)
    /\ (apply_pc = "returned" /\ maxk > 0 /\ final_update) =>
         /\ hist.fin = 1
         /\ x[call.x_out] =
              hist.x_in - SeqSum([kk \in 1..M |-> Mul(Qfin[kk], L(eqn, Unodes[kk]))])

C3_Witness ==
    /\ apply_pc = "returned" /\ maxk > 0 /\ final_update /\ hist.fin = 1
    /\ Unodes[M] # hist.x_in
    /\ x[call.x_out] # Unodes[M]

C5_PredictionSequential ==
    (apply_pc = "predict") =>
        /\ Unodes[0] = hist.x_in
        /\ hist.written = 0..m
        /\ hist.base = m
        /\ \A j \in 1..m :
             Unodes[j] = BaseApply(base, eqn,
                                   nodes[j] - (IF j = 1 THEN 0 ELSE nodes[j - 1]),
                                   Unodes[j - 1])
        /\ (m >= 1) => base_dt = nodes[m] - (IF m = 1 THEN 0 ELSE nodes[m - 1])

C5_Witness ==
    /\ apply_pc = "predict" /\ m = M /\ M >= 3
    /\ Unodes[M] # Unodes[M - 1] /\ Unodes[1] # Unodes[0]

\* C6: for every quadrature kind and every M >= 1 create_nodes yields M nodes,
\* strictly increasing and all within [0, dt].
C6_NodesIncreasingInRange ==
    (ctor_pc # "create_nodes" /\ exc = "none") =>
        /\ Len(nodes) = M
        /\ \A i \in 1..Len(nodes) : 0 <= nodes[i] /\ nodes[i] <= dt_coarse
        /\ \A i \in 1..Len(nodes), j \in 1..Len(nodes) :
             i < j => nodes[i] < nodes[j]

C6_Witness ==
    /\ Constructed /\ M >= 3 /\ quadrature = "gauss-legendre"
    /\ nodes[1] > 0 /\ nodes[M] < dt_coarse

\* C7 as stated: for Gauss-Radau the first stored node is 0.
C7_RadauFirstNodeIsZero ==
    (Constructed /\ quadrature = "gauss-radau") => nodes[1] = 0

\* C7 amended: for Gauss-Radau the fixed endpoint ends as the LAST stored node,
\* node[M-1] = dt (Radau IIA): rescaling maps the reference endpoint A to 0 and
\* the reflect-and-reverse step moves it to dt; the first node is not 0.
C7_RadauLastNodeIsDt ==
    (Constructed /\ quadrature = "gauss-radau") =>
        /\ Rescale(Fx(A), 0, dt_coarse) = 0
        /\ nodes[M] = dt_coarse
        /\ nodes[1] > 0

C7_Witness ==
    /\ Constructed /\ quadrature = "gauss-radau" /\ M >= 3
    /\ nodes[M] = dt_coarse

\* C8: for Gauss-Lobatto with M >= 2 both endpoints are stored nodes:
\* node[0] = 0 and node[M-1] = dt.
C8_LobattoEndpoints ==
    (Constructed /\ quadrature = "gauss-lobatto" /\ M >= 2) =>
        /\ nodes[1] = 0
        /\ nodes[M] = dt_coarse

C8_Witness ==
    /\ Constructed /\ quadrature = "gauss-lobatto" /\ M >= 3
    /\ nodes[1] = 0 /\ nodes[2] > 0

\* C9 as stated: a construction with M < 1 is rejected before any node or
\* integration matrix is computed.
C9_RejectedBeforeAnyNode ==
    (M < 1) => ctor_pc \in {"create_nodes", "raised"}

\* C10: a failed solve ends the run: the exception leaves apply and the time
\* loop, and no step of any kind (solve, sweep, timestep, dump, retry) is
\* taken from a state in which an exception has been raised.
C10_FailureEndsRun ==
    [][/\ exc = "none"
       /\ (exc' # "none") =>
            /\ ctor_pc' = "raised" \/ (apply_pc' = "raised" /\ run_pc' = "raised")
            /\ ndump' = ndump /\ t' = t /\ x' = x /\ fields' = fields]_vars

C10_Witness ==
    /\ exc = "SolverError" /\ run_pc = "raised" /\ apply_pc = "raised"
    /\ hist.sweeps >= 1 /\ hist.solve >= 1 /\ ndump >= 2

\* C11: the value apply writes to x_out is a function of x_in and the
\* configuration alone: an apply that returns gives, for an x_in an earlier
\* apply of the same object was given, the x_out that earlier apply gave,
\* whatever node values, F evaluations, quad values and Un it left behind.
C11_OutputIndependentOfEarlierApply ==
    (apply_pc = "returned") =>
        \A p \in hist.prev : (p[1] = hist.x_in) => (x[call.x_out] = p[2])

C11_Witness ==
    /\ apply_pc = "returned" /\ maxk >= 1 /\ final_update /\ M >= 2
    /\ \E p \in hist.prev : p[1] = hist.x_in /\ p[2] # hist.x_in
    /\ x[call.x_out] # hist.x_in

\* C12 as stated: at the top of the loop another timestep is executed exactly
\* when the current time is strictly less than the end time.
C12_StepsWhileBelowEnd ==
    [][(run_pc = "loop") => ((run_pc' = "timestep") <=> (t < tmax))]_vars

\* C12 amended: at the top of the loop another timestep is executed exactly
\* when t < tmax - dt/2, that is when more than half a step remains; every
\* executed step advances the time by the same dt, which never changes.
C12_StepsWhileMoreThanHalfStepRemains ==
    [][/\ (run_pc = "loop") =>
            ((run_pc' = "timestep") <=> (2 * t < 2 * tmax - dt_coarse))
       /\ (run_pc = "loop" /\ run_pc' = "timestep") => (t' = t + dt_coarse)
       /\ (run_pc # "loop" \/ run_pc' # "timestep") => (t' = t)
       /\ dt_coarse' = dt_coarse]_vars

C12_Witness ==
    /\ run_pc = "done" /\ t > 0 /\ t < tmax
    /\ 2 * (tmax - t) = dt_coarse

\* the stages of one iteration of Timestepper.run, in the order of the code
RunOrder == <<"update", "apply", "assign", "copy", "physics", "dump">>

RECURSIVE RowsSum(_, _)
RowsSum(A_, m_) ==
    IF m_ = 1 THEN A_[1]
    ELSE LET r == RowsSum(A_, m_ - 1)
         IN  [j \in 1..Len(A_[m_]) |-> r[j] + A_[m_][j]]

\* C19: S is the first difference of the rows of Q: S[0,:] = Q[0,:] and
\* S[m,:] = Q[m,:] - Q[m-1,:] for 1 <= m < M; equivalently the sum of the rows
\* S[0..m] is Q[m,:] for every m.
C19_SIsFirstDifferenceOfQ ==
    Constructed =>
        /\ Len(S) = M /\ Len(Q) = M
        /\ S[1] = Q[1]
        /\ \A r \in 2..M : \A j \in 1..M : S[r][j] = Q[r][j] - Q[r - 1][j]
        /\ \A r \in 1..M : RowsSum(S, r) = Q[r]

C19_Witness ==
    /\ Constructed /\ M >= 3
    /\ S[2] # Q[2] /\ S[3] # Q[3] /\ S[3] # S[2]

\* the round-off the fixed-point sums are allowed: under one percent of dt
RoundOff(step) == step \div 128

\* C20: exactness for the constant function, to within the round-off of the
\* fixed-point arithmetic: the sum of row m of Q is node[m], the sum of row m
\* of S is dtau[m], and the entries of Qfin sum to dt; for M = 3 Gauss-Radau
\* nodes on dt = 1 the row Q[2,:] sums to 1.
C20_ExactForConstants ==
    Constructed =>
        /\ \A r \in 1..M : Abs(SeqSum(Q[r]) - nodes[r]) <= RoundOff(dt_coarse)
        /\ \A r \in 1..M : Abs(SeqSum(S[r]) - dtau[r]) <= RoundOff(dt_coarse)
        /\ Abs(SeqSum(Qfin) - dt_coarse) <= RoundOff(dt_coarse)
        /\ (M = 3 /\ quadrature = "gauss-radau" /\ dt_coarse = Fx(1)) =>
               Abs(SeqSum(Q[3]) - Fx(1)) <= RoundOff(Fx(1))

C20_Witness ==
    /\ Constructed /\ M = 3 /\ quadrature = "gauss-radau" /\ dt_coarse = Fx(1)
    /\ Abs(SeqSum(Q[3]) - Fx(1)) <= RoundOff(Fx(1))
    /\ \A r \in 1..M : SeqSum(S[r]) > RoundOff(dt_coarse)
    /\ SeqSum(Q[1]) + RoundOff(dt_coarse) < SeqSum(Q[2])

\* C14: counting the dump calls from 0 (call 0 is the one setup_dump makes),
\* call c writes the fields iff dump_vtus and c mod dumpfreq = 0, the
\* checkpoint iff checkpoint and c mod chkptfreq = 0, the point data iff there
\* are point data and c mod pddumpfreq = 0; the counter of an enabled kind has
\* advanced by one per call and the counter of a disabled kind does not exist,
\* so what one kind does depends on no other kind's switch or frequency.
C14_IndependentModuloCounters ==
    (io_pc = "ready") =>
        /\ \A c \in 0..(Len(io_log) - 1) :
             /\ io_log[c + 1].vtu <=> (output.dump_vtus /\ c % output.dumpfreq = 0)
             /\ io_log[c + 1].chkpt <=>
                  (output.checkpoint /\ c % output.chkptfreq = 0)
             /\ io_log[c + 1].pd <=>
                  (output.point_data /\ c % output.pddumpfreq = 0)
        /\ dumpcount = (IF output.dump_vtus THEN Len(io_log) ELSE -1)
        /\ chkptcount = (IF output.checkpoint THEN Len(io_log) ELSE -1)
        /\ pddumpcount = (IF output.point_data THEN Len(io_log) ELSE -1)

C14_Witness ==
    /\ io_pc = "ready" /\ Len(io_log) = 7
    /\ output.dump_vtus /\ output.checkpoint /\ ~output.point_data
    /\ output.dumpfreq = 2 /\ output.chkptfreq = 3
    /\ io_log[7].vtu /\ io_log[7].chkpt /\ ~io_log[6].vtu /\ ~io_log[6].chkpt
    /\ io_log[5].vtu /\ ~io_log[5].chkpt /\ io_log[4].chkpt /\ ~io_log[4].vtu

SplitArgsGiven == dynamics_schemes /\ (("physics" \in term_splitting) => physics_schemes)

\* C16 as stated: the construction raises ValueError when term_splitting
\* leaves a term of the equation uncovered, and does not raise when it covers
\* them all.
C16_RaisesIffUncovered ==
    (split_pc # "new" /\ SplitArgsGiven) =>
        IF eq_terms \subseteq term_splitting
        THEN split_exc = "none"
        ELSE split_exc = "ValueError"

\* the fields f is evaluated from
DepsOf(f) == { field_deps[f][i] : i \in 1..Len(field_deps[f]) }

\* the fields reachable from f along at most steps dependencies
RECURSIVE Reach(_, _)
Reach(f, steps) ==
    IF steps = 0 THEN {}
    ELSE LET r == Reach(f, steps - 1)
         IN  DepsOf(f) \cup r \cup UNION { DepsOf(g) : g \in r }

Cyclic == \E f \in 1..Len(field_deps) : f \in Reach(f, Len(field_deps))

\* the place of field f in the schedule (0: not scheduled)
Place(f) ==
    IF \E i \in 1..Len(schedule) : schedule[i] = f
    THEN CHOOSE i \in 1..Len(schedule) : schedule[i] = f
    ELSE 0

\* C17: for acyclic dependencies topo_sort returns; the schedule holds every
\* given field exactly once, and every field after all the fields it depends
\* on.
C17_ScheduleRespectsDependencies ==
    (topo_pc \notin {"new", "loop"} /\ ~Cyclic) =>
        /\ topo_pc = "returned"
        /\ Len(schedule) = Len(field_deps)
        /\ \A f \in 1..Len(field_deps) :
             /\ \E i \in 1..Len(schedule) : schedule[i] = f
             /\ \A d \in DepsOf(f) : Place(d) < Place(f)

C17_Witness ==
    /\ topo_pc = "returned" /\ Len(field_deps) = 3
    /\ DepsOf(1) = {3} /\ DepsOf(3) = {2} /\ DepsOf(2) = {}
    /\ schedule = <<2, 3, 1>>

\* C18: for dependencies with a cycle topo_sort ends with RuntimeError and
\* returns no schedule; the loop makes at most one pass per field, and no
\* field on a cycle is ever scheduled.
C18_CycleRaises ==
    /\ Len(schedule) <= Len(field_deps)
    /\ \A i, j \in 1..Len(schedule) : (schedule[i] = schedule[j]) => (i = j)
    /\ Cyclic =>
         /\ topo_pc # "returned"
         /\ (topo_pc # "new" /\ topo_pc # "loop") => (topo_pc = "RuntimeError")
         /\ \A i \in 1..Len(schedule) :
              schedule[i] \notin Reach(schedule[i], Len(field_deps))

C18_Witness ==
    /\ topo_pc = "RuntimeError" /\ Len(field_deps) = 3
    /\ DepsOf(1) = {} /\ DepsOf(2) = {1, 3} /\ DepsOf(3) = {2}
    /\ schedule = <<1>>

\* C21: while the nodes of a sweep are solved, fUnodes[0..M-1] hold F at the
\* M current-generation node values of this very sweep, evaluated once per
\* node and sweep, and quad[j] is the sum over k of S[j,k]*fUnodes[k] for
\* every j in 0..M-1.
C21_QuadFromOwnGeneration ==
    (apply_pc = "solve") =>
        /\ hist.rhs = M * k
        /\ \A j \in 1..M : fUnodes[j - 1] = L(eqn, Unodes[j])
        /\ \A j \in 0..(M - 1) :
             quad[j] = SeqSum([kk \in 1..M |-> Mul(S[j + 1][kk], L(eqn, Unodes[kk]))])

C21_Witness ==
    /\ apply_pc = "solve" /\ k = 2 /\ M = 2 /\ m = 2
    /\ fUnodes[0] # fUnodes[1] /\ quad[1] # 0

\* C22: in BE_SDC the value stored for next-generation node m solves
\*   y + dtau_m*L(y) = y_(m-1) + dtau_m*L(y_m of the current generation) - quad[m-1]
\* with y_(m-1) the next-generation value of the node before and L the one
\* operator that fUnodes and quad are computed from (dy/dt = -L(y)); here
\* m - 1 is the node just solved and dt = dtau of that node.
C22_BackwardEulerNodeEquation ==
    (variant = "BE_SDC" /\ apply_pc = "solve" /\ m >= 2) =>
        /\ dt = dtau[m - 1]
        /\ U01 = Unodes[m - 1] /\ Un = Unodes1[m - 2] /\ Q_ = quad[m - 2]
        /\ Unodes1[m - 1] = U_SDC
        /\ Abs(U_SDC + Mul(dt, L(eqn, U_SDC)) - Un - Mul(dt, L(eqn, U01)) + Q_)
             <= RoundOff(dt_coarse)

\* C23: in FE_SDC every node solve of a sweep ends normally, and the value
\* stored for next-generation node m is
\*   y_(m-1) - dtau_m*(L(y_(m-1)) - L(y_(m-1) of the current generation)) - quad[m-1]
\* with y_(m-1) the next-generation value of the node before (dy/dt = -L(y));
\* here m - 1 is the node just solved.
C23_ForwardEulerNodeEquation ==
    (variant = "FE_SDC" /\ hist.sweeps >= 1) =>
        /\ exc # "AttributeError"
        /\ (apply_pc = "solve" /\ m >= 2) =>
             /\ U0 = Unodes[m - 2] /\ Un = Unodes1[m - 2] /\ Q_ = quad[m - 2]
             /\ Abs(Unodes1[m - 1]
                     - (Un - Mul(dtau[m - 1], L(eqn, Un) - L(eqn, U0)) - Q_))
                  <= RoundOff(dt_coarse)

\* C24: while the nodes of a sweep are solved no current-generation value
\* Unodes[0..M] is written; a step that ends the node loop normally comes
\* after all M solves of the sweep, overwrites Unodes[1..M] with the next
\* generation Unodes1[1..M] and sets Un to the value at the last node.
C24_DoubleBuffered ==
    [][(apply_pc = "solve") =>
         IF apply_pc' = "sweeps"
         THEN /\ m = M + 1 /\ hist.solve = M * k
              /\ \A i \in 1..M : Unodes'[i] = Unodes1[i]
              /\ Unodes'[0] = Unodes[0]
              /\ Unodes1' = Unodes1
              /\ Un' = Unodes1[M]
         ELSE Unodes' = Unodes]_vars

C24_Witness ==
    /\ apply_pc = "sweeps" /\ k = 2 /\ M = 2 /\ hist.solve = 4
    /\ Unodes[1] = Unodes1[1] /\ Unodes[2] = Unodes1[2] /\ Un = Unodes[2]
    /\ Unodes[1] # Unodes[2] /\ Unodes[0] # Unodes[1]

\* C25: after construction the attribute linear_solver_parameters is not
\* None: it is the default dictionary when no dictionary was given and the
\* given dictionary otherwise, and the right-hand-side and final-update
\* solvers are built with it.
C25_LinearParametersDefaulted ==
    (params_pc = "constructed") =>
        /\ linear_solver_parameters # None
        /\ linear_solver_parameters # Unset
        /\ linear_solver_parameters =
             (IF arg_linear = None THEN DefaultLinear ELSE arg_linear)
        /\ solver_rhs_parameters \in {Unset, linear_solver_parameters}
        /\ solver_fin_parameters \in {Unset, linear_solver_parameters}

\* the number of timesteps that run has completed: one dump each, after
\* the initial dump
StepsDone == ndump - 1

\* the construction, the setup or the run has ended, normally or with an
\* exception
Ended == ctor_pc = "raised" \/ run_pc \in {"done", "raised"}

\* C26: with the scheme constructed, run comes to an end and stays ended;
\* when it has ended normally it has executed exactly the smallest n >= 0
\* with t0 + n*dt >= tmax - 0.5*dt timesteps; with n = 0 the fields are left
\* as initialised, and otherwise tmax - 0.5*dt <= t < tmax + 0.5*dt at the
\* end.
C26_RunTerminatesAfterExactSteps ==
    <>[](/\ Ended \/ ctor_pc \in {"create_nodes", "Qmatrix", "Smatrix", "Qfinal"}
         /\ (run_pc = "done") =>
              /\ t = t0 + StepsDone * dt_coarse
              /\ 2 * t >= 2 * tmax - dt_coarse
              /\ \A n \in 0..(StepsDone - 1) :
                   2 * (t0 + n * dt_coarse) < 2 * tmax - dt_coarse
              /\ (StepsDone = 0) =>
                   (fields \in InitialFields /\ x.n = fields /\ x.np1 = fields
                    /\ hist.prev = {} /\ hist.iter = <<>>)
              /\ (StepsDone > 0) => (2 * t < 2 * tmax + dt_coarse))

C26_Witness ==
    /\ run_pc = "done" /\ StepsDone = 1 /\ 2 * t0 = dt_coarse
    /\ tmax = 2 * t0 + dt_coarse /\ t < tmax

\* C27: while apply runs, and when it has raised, neither argument field has
\* been written (x_in still holds the value apply was called with); x_out is
\* assigned by the step that returns; and apply(x, x), called with one field
\* as output and input, hands back the value that apply(out, x) handed back
\* for the same input with a distinct output field.
C27_AliasSafe ==
    /\ (apply_pc \notin {"idle", "returned"} /\ run_pc # "new") =>
         (x.n = hist.x_in /\ x.np1 = hist.x_in)
    /\ (apply_pc = "returned") =>
         /\ (call.x_in # call.x_out) => x[call.x_in] = hist.x_in
         /\ (call.x_in = call.x_out) =>
              \A p \in hist.prev : (p[1] = hist.x_in) => (p[2] = x[call.x_out])

C27_Witness ==
    /\ apply_pc = "returned" /\ call.x_in = call.x_out
    /\ maxk = 2 /\ final_update /\ M = 2
    /\ \E p \in hist.prev : p[1] = hist.x_in /\ p[2] = x.np1 /\ p[2] # p[1]

\* C28: for an equation whose terms are all labelled implicit the node
\* solve of IMEX_SDC ends as that of BE_SDC does, and for one whose terms are
\* all labelled explicit as that of FE_SDC does, on the same fields.
C28_ImexDegenerates ==
    (imex_result # NotSolved /\ pure_result # NotSolved) =>
        (imex_result = pure_result)

\* the node values U with their quadrature increments qd satisfy the
\* collocation equations  U[j] - U[j-1] = -qd[j-1]  (qd is computed from
\* S and L = -F of the same values), up to round-off
Collocated(U, qd) ==
    \A j \in 1..M : Abs(U[j] - U[j - 1] + qd[j - 1]) <= RoundOff(dt_coarse)

C30_NodeZeroIsStepInput ==
    (run_pc # "new" /\ apply_pc # "idle") =>
        /\ Unodes[0] = hist.x_in
        /\ (apply_pc = "solve" \/ (k >= 1 /\ apply_pc \in {"sweeps", "fin_rhs", "returned"}))
             => (Unodes1[0] = hist.x_in)

C30_Witness ==
    /\ apply_pc = "returned" /\ k = 2 /\ M = 2 /\ final_update
    /\ Unodes[0] = hist.x_in /\ Unodes1[0] = hist.x_in
    /\ Unodes[1] # Unodes[0] /\ Unodes[2] # Unodes[0] /\ x[call.x_out] # hist.x_in
====
